---- MODULE Spec2Model ----
(***************************************************************************)
(* A model of the transit-data importers of this repository:               *)
(*   - static GTFS ingestion (import_gtfs_worldwide.py): handle,           *)
(*     handle_operator, handle_route, do_stops, handle_zipfile and         *)
(*     do_route_links, run against a relational store in autocommit mode; *)
(*   - live vehicle matching (import_gtfsr_translink_qld.py and            *)
(*     import_gtfsr_worldwide.py): get_vehicle and get_journey.            *)
(*                                                                         *)
(* Text values.  Identifiers that the code prefixes (agency ids, stop ids) *)
(* are pairs <<prefix, id>>, the unprefixed id being <<"", id>>.  Codes    *)
(* that the code splits on "_" (route ids, trip ids) are sequences of the  *)
(* tokens between the underscores: "123_456" is <<"123", "456">>.  None    *)
(* and NULL are 0 for keys and "" for texts.                               *)
(***************************************************************************)
EXTENDS Integers, Sequences, FiniteSets, TLC

VARIABLES
    db,       \* the relational store: one set of rows per table
    self,     \* the attributes of the running import_gtfs_worldwide Command
    pc,       \* the position of the ingestion run inside handle/handle_zipfile
    before,   \* the store as it was when the current run started
    prev,     \* what the last completed run ingested and left in the store
    runs,     \* the number of handle calls so far
    live,     \* the live matcher: its vehicles and its last report
    calc,     \* a trip being built from stop-time rows given in any order
    walk,     \* do_route_links walking the stop pairs of one trip
    poll,     \* the polling loop of import_thirdrails
    cmd       \* a management command run as a whole: its arguments and outcome

vars == <<db, self, pc, before, prev, runs, live, calc, walk, poll, cmd>>

NULL == 0

\* ------------------------------------------------------------------ bounds

MaxRuns == 3

\* ------------------------------------------------------------- generic helpers

Range(s) == {s[i] : i \in DOMAIN s}

MinOf(S) == CHOOSE x \in S : \A y \in S : x <= y

MaxOf(S) == CHOOSE x \in S : \A y \in S : y <= x

\* f with key k set to v (a Python dict assignment)
Put(f, k, v) == [x \in (DOMAIN f) \cup {k} |-> IF x = k THEN v ELSE f[x]]

EmptyDict == [x \in {} |-> NULL]

\* one statement after another: v is computed, then F of that value
Then(v, F(_)) == CHOOSE r \in {F(x) : x \in {v}} : TRUE

\* f"{prefix}{id}", applied by the code only when the prefix is non-empty
Prefixed(prefix, id) == IF prefix = "" THEN id ELSE <<prefix, id[2]>>

Raw(id) == <<"", id>>

\* None, where the value would be a prefixed identifier
NoneId == Raw("")

\* None, where the value would be a time text
NoTime == "None"

\* ------------------------------------------------------------- data sources

Sources == {"A", "B"}

\* DataSource.settings["gtfs"] of each source (handle, lines 77-90).  Both
\* sources are configured with the same stop_prefix, so that their feeds name
\* the same StopPoints.
Settings(source) ==
    [agency_prefix     |-> "",
     stop_prefix       |-> "s-",
     operator_noc      |-> "",
     default_operator  |-> "",
     operator_matching |-> "noc",
     skip_route_links  |-> FALSE]

\* ------------------------------------------------------------- texts

\* str.lower(), as used by the __iexact lookups, on the texts of the model
Lower(s) == IF s = "10A" THEN "10a" ELSE s

\* " " in s
HasSpace(s) == s \in {"City Loop", "Airport Link"}

\* len(s) < 5
ShorterThan5(s) == s \in {"", "10", "10a", "10A", "20", "rail"}

\* str(timedelta) read back by parse_duration(...).total_seconds(): the texts
\* "HH:MM:SS" of the model and their seconds; "" is a missing time (NaN)
TimeTexts == {"08:00:00", "08:05:00", "08:10:00", "08:12:00"}

parse_duration(t) ==
    CASE t = "08:00:00" -> 28800
      [] t = "08:05:00" -> 29100
      [] t = "08:10:00" -> 29400
      [] t = "08:12:00" -> 29520
      [] OTHER -> NULL

\* ------------------------------------------------------------- feeds

RouteRow(id, short, long, agency) ==
    [route_id |-> id, route_short_name |-> short, route_long_name |-> long,
     agency_id |-> agency]

TripRow(id, route, service, direction, headsign, shape) ==
    [trip_id |-> id, route_id |-> route, service_id |-> service,
     direction_id |-> direction, trip_headsign |-> headsign, shape_id |-> shape]

StopTimeRow(trip, seq, stop, arr, dep) ==
    [trip_id |-> trip, stop_sequence |-> seq, stop_id |-> stop,
     arrival_time |-> arr, departure_time |-> dep]

\* stop_name is name, or name followed by ", " and suffix
StopRow(id, name, suffix, pos) ==
    [stop_id |-> Raw(id), stop_name |-> [name |-> name, suffix |-> suffix],
     stop_pos |-> pos]

AgencyRow(id, name, url) ==
    [agency_id |-> id, agency_name |-> name, agency_url |-> url]

R1 == <<"10", "456">>
R2 == <<"20", "456">>
T1 == <<"t1">>
T2 == <<"t2", "456">>
T3 == <<"t3">>
T4 == <<"t4">>

Acme == AgencyRow(Raw("ag1"), "Acme", "u1")

Stops1 == <<StopRow("1", "High St", "", 0), StopRow("2", "Mill Rd", "stop 3", 4),
            StopRow("3", "Depot", "", 9)>>

\* the same stops: one renamed, one moved
Stops2 == <<StopRow("1", "High Street", "", 0), StopRow("2", "Mill Rd", "stop 3", 5),
            StopRow("3", "Depot", "", 9)>>

\* T1 as in the timetable example, its rows out of sequence order
TimesT1 == <<StopTimeRow(T1, 2, Raw("2"), "08:05:00", "08:05:00"),
             StopTimeRow(T1, 3, Raw("3"), "08:10:00", "08:12:00"),
             StopTimeRow(T1, 1, Raw("1"), "08:00:00", "08:00:00")>>

TimesT2 == <<StopTimeRow(T2, 1, Raw("3"), "08:05:00", "08:05:00"),
             StopTimeRow(T2, 2, Raw("1"), "08:12:00", "08:12:00")>>

TimesT3 == <<StopTimeRow(T3, 1, Raw("1"), "08:10:00", "08:10:00"),
             StopTimeRow(T3, 2, Raw("2"), "08:12:00", "08:12:00")>>

TimesT4 == <<StopTimeRow(T4, 5, Raw("2"), "08:00:00", "08:00:00"),
             StopTimeRow(T4, 7, Raw("2"), "08:05:00", "08:10:00")>>

\* the shape of every trip of the model: a straight line from 0 to its length
Shapes == [sh1 |-> 9, sh2 |-> 6]

Feed(name, lm, routes, stops, trips, stop_times) ==
    [name |-> name, last_modified |-> lm, agency |-> <<Acme>>, routes |-> routes,
     stops |-> stops, trips |-> trips, stop_times |-> stop_times,
     calendar |-> {"wk", "we"}]

Feeds ==
    { \* one route, two trips
      Feed("F1", 1, <<RouteRow(R1, "10", "City Loop", Raw("ag1"))>>, Stops1,
           <<TripRow(T1, R1, "wk", 0, "Depot", "sh1"),
             TripRow(T2, R1, "we", 1, "High St", "sh2")>>,
           TimesT1 \o TimesT2),
      \* the same route with a changed trip set and changed stops
      Feed("F2", 2, <<RouteRow(R1, "10", "City Loop", Raw("ag1"))>>, Stops2,
           <<TripRow(T2, R1, "we", 1, "High St", "sh2"),
             TripRow(T3, R1, "wk", 0, "Mill Rd", "sh1")>>,
           TimesT2 \o TimesT3),
      \* two routes, the second without agency reference and short name
      Feed("F3", 2, <<RouteRow(R1, "10", "City Loop", Raw("ag1")),
                      RouteRow(R2, "", "Airport Link", Raw(""))>>, Stops1,
           <<TripRow(T1, R1, "wk", 0, "Depot", "sh1"),
             TripRow(T4, R2, "wk", 0, "Mill Rd", "")>>,
           TimesT1 \o TimesT4),
      \* a trip row whose route_id is not in routes.txt
      Feed("F4", 3, <<RouteRow(R1, "10", "City Loop", Raw("ag1"))>>, Stops2,
           <<TripRow(T1, R1, "wk", 0, "Depot", "sh1"),
             TripRow(T4, R2, "wk", 0, "Mill Rd", "")>>,
           TimesT1 \o TimesT4),
      \* the same route code in two rows; a trip without stop times (T3) and
      \* stop times of a trip that is not in trips.txt (T4)
      Feed("F5", 3, <<RouteRow(R1, "10", "City Loop", Raw("ag1")),
                      RouteRow(R1, "10A", "", Raw("ag1"))>>, Stops1,
           <<TripRow(T1, R1, "wk", 0, "Depot", "sh1"),
             TripRow(T3, R1, "we", 1, "", "sh1")>>,
           TimesT4 \o TimesT1) }

NoFeed == Feed("", NULL, <<>>, <<>>, <<>>, <<>>)

\* a feed whose two routes have one line name, so that they share a Service
R3 == <<"30", "456">>

TwoRoutesOneService ==
    Feed("F6", 1, <<RouteRow(R1, "10", "City Loop", Raw("ag1")),
                    RouteRow(R3, "10", "City Loop", Raw("ag1"))>>, Stops1,
         <<TripRow(T1, R1, "wk", 0, "Depot", "sh1"),
           TripRow(T3, R3, "wk", 0, "Mill Rd", "sh1")>>,
         TimesT1 \o TimesT3)

FeedNamed(n) == CHOOSE f \in Feeds \cup {NoFeed, TwoRoutesOneService} : f.name = n

\* the feed that a run reads: self holds its name
TheFeed(s) == FeedNamed(s.feed)

\* ------------------------------------------------------------- the store

\* The tables, empty.  seq holds the last primary key each table's sequence
\* gave out; datetime is DataSource.datetime, NULL until a run has saved it;
\* sources holds the names of the DataSource rows, which no import creates.
EmptyStore ==
    [sources    |-> Sources,
     operators  |-> {},   \* [noc, name, url], noc being the primary key
     services   |-> {},   \* [id, source, service_code, line_name, description,
                          \*  current, operator (the set of its operators' nocs)]
     routes     |-> {},   \* [id, source, code, line_name, description, service]
     trips      |-> {},   \* [id, route, calendar, inbound, headsign,
                          \*  ticket_machine_code, operator, start, end, destination]
     stoptimes  |-> {},   \* [id, stop, arrival, departure, sequence, trip]
     stops      |-> {},   \* [atco_code, common_name, indicator, latlong, source]
     routelinks |-> {},   \* [id, service, from_stop, to_stop, geometry]
     datetime   |-> [s \in Sources |-> NULL],
     seq        |-> [service |-> 0, route |-> 0, trip |-> 0, stoptime |-> 0,
                     routelink |-> 0]]

\* on_delete=CASCADE from Trip to StopTime: deleting trips deletes their stop times
DeleteTrips(d, gone) ==
    [d EXCEPT !.trips = d.trips \ gone,
              !.stoptimes = {x \in d.stoptimes : x.trip \notin {t.id : t \in gone}}]

\* ------------------------------------------------------------- handle_operator

\* Operator.objects.filter(operator_query).first()
OperatorQuery(d, matching, agency_id, name, url) ==
    {o \in d.operators :
        CASE matching = "noc" -> o.noc = agency_id
          [] matching = "name" -> Lower(o.name) = Lower(name)
          [] matching = "url" /\ url # "" -> o.url = url
          [] OTHER -> TRUE}

\* handle_operator(line): the store after it and the noc of the operator returned
handle_operator(st, line) ==
    LET d == st.db
        s == st.self
        id0 == IF line.agency_id # Raw("") THEN line.agency_id
               ELSE IF s.operator_noc # "" THEN Raw(s.operator_noc)
               ELSE IF line.agency_name # "" THEN Raw(line.agency_name)
               ELSE Raw(s.source)
        agency_id == Prefixed(s.agency_prefix, id0)
        found == OperatorQuery(d, s.operator_matching, agency_id,
                               line.agency_name, line.agency_url)
        operator == CHOOSE o \in found : TRUE
        new == [noc |-> agency_id, name |-> line.agency_name, url |-> line.agency_url]
    IN  IF found = {}
        THEN [db |-> [d EXCEPT !.operators =
                         {o \in d.operators : o.noc # agency_id} \cup {new}],
              noc |-> agency_id]
        ELSE [db |-> [d EXCEPT !.operators =
                         (d.operators \ {operator})
                            \cup {[operator EXCEPT !.url = line.agency_url]}],
              noc |-> operator.noc]

\* handle_zipfile, lines 334-339: self.operators[agency_id] = handle_operator(agency)
RECURSIVE handle_agencies(_, _)
handle_agencies(st, rows) ==
    IF rows = <<>> THEN st
    ELSE LET agency == Head(rows)
             key == IF agency.agency_id # Raw("") THEN agency.agency_id
                    ELSE Raw(agency.agency_name)
             got == handle_operator(st, agency)
         IN  handle_agencies(
                 [db |-> got.db,
                  self |-> [st.self EXCEPT !.operators = Put(@, key, got.noc)]],
                 Tail(rows))

\* ------------------------------------------------------------- handle_route

\* a bug: the trips of a re-imported Route are kept
DeleteTripSet_Kept(d, route_id) == d

\* lines 313-314: a Route that update_or_create found loses its trip_set
DeleteTripSet(d, route_id) ==
    DeleteTrips(d, {t \in d.trips : t.route = route_id})

\* lines 273-280: the filter q of one Service
ServiceMatches(d, sv, route_id, line_name, description) ==
    \/ \E r \in d.routes : r.code = route_id /\ r.service = sv.id
    \/ sv.service_code = route_id
    \/ IF line_name # "" /\ line_name \notin {"rail", "InterCity"}
       THEN Lower(sv.line_name) = Lower(line_name)
       ELSE description # "" /\ sv.description = description

\* line 271: Service.objects.filter(operator=operator); operator None selects
\* the services without operator
ServicesOfOperator(d, operator) ==
    {sv \in d.services :
        IF operator = NoneId THEN sv.operator = {} ELSE operator \in sv.operator}

\* a bug: update_or_create that never finds the Route
ExistingRoutes_NeverFound(d, source, code) == {}

\* lines 304-312: the Routes that update_or_create looks up by source and code
ExistingRoutes(d, source, code) ==
    {r \in d.routes : r.source = source /\ r.code = code}

handle_route(st, line) ==
    LET d == st.db
        s == st.self
        short == line.route_short_name
        long == line.route_long_name
        line_name == IF short = "" /\ ~HasSpace(long) THEN long ELSE short
        description == IF short = "" /\ ~HasSpace(long) /\ ShorterThan5(long)
                       THEN "" ELSE long
        agency0 == IF s.agency_prefix # "" /\ line.agency_id # Raw("")
                   THEN Prefixed(s.agency_prefix, line.agency_id)
                   ELSE line.agency_id
        agency_id == IF agency0 # Raw("") THEN agency0
                     ELSE IF Cardinality(DOMAIN s.operators) = 1
                     THEN CHOOSE k \in DOMAIN s.operators : TRUE
                     ELSE IF s.default_operator # "" THEN Raw(s.default_operator)
                     ELSE Raw("")
        operator == IF agency_id # Raw("") /\ agency_id \in DOMAIN s.operators
                    THEN s.operators[agency_id] ELSE NoneId
        matching == {sv \in ServicesOfOperator(d, operator) :
                        ServiceMatches(d, sv, line.route_id, line_name, description)}
        found == matching # {}
        old == CHOOSE sv \in matching : sv.id = MinOf({x.id : x \in matching})
        sid == IF found THEN old.id ELSE d.seq.service + 1
        ops == IF operator = NoneId THEN (IF found THEN old.operator ELSE {})
               ELSE IF sid \in s.services THEN old.operator \cup {operator}
               ELSE {operator}
        service == [id |-> sid, source |-> s.source, service_code |-> line.route_id,
                    line_name |-> line_name, description |-> description,
                    current |-> TRUE, operator |-> ops]
        existing == ExistingRoutes(d, s.source, line.route_id)
        created == existing = {}
        rid == IF created THEN d.seq.route + 1
               ELSE (CHOOSE r \in existing : TRUE).id
        route == [id |-> rid, source |-> s.source, code |-> line.route_id,
                  line_name |-> line_name, description |-> description,
                  service |-> sid]
        d1 == [d EXCEPT !.services = {sv \in d.services : sv.id # sid} \cup {service},
                        !.routes = {r \in d.routes : r.id # rid} \cup {route},
                        !.seq.service = IF found THEN @ ELSE sid,
                        !.seq.route = IF created THEN rid ELSE @]
    IN  [db |-> IF created THEN d1 ELSE DeleteTripSet(d1, rid),
         self |-> [s EXCEPT !.services = @ \cup {sid},
                            !.routes = Put(@, line.route_id, [id |-> rid, service_id |-> sid]),
                            !.route_operators = Put(@, line.route_id, operator)]]

\* handle_zipfile, lines 344-353
RECURSIVE handle_routes(_, _)
handle_routes(st, rows) ==
    IF rows = <<>> THEN st
    ELSE handle_routes(handle_route(st, Head(rows)), Tail(rows))

\* ------------------------------------------------------------- do_stops

\* lines 168-180: the StopPoint built from one stops.txt row.  The name is
\* split at ", " when what follows starts with "stop"; every name of the model
\* is shorter than the 48 characters it is cut to.
StopCandidate(s, line) ==
    [atco_code   |-> Prefixed(s.stop_prefix, line.stop_id),
     common_name |-> line.stop_name.name,
     indicator   |-> line.stop_name.suffix,
     latlong     |-> line.stop_pos,
     source      |-> s.source]

\* a bug: no ownership test
MayUpdate_Anyone(existing, source) == TRUE

\* line 195: a run may update a stop that has no source or its own source
MayUpdate(existing, source) == existing.source \in {source, ""}

\* lines 191-200
NeedsUpdate(existing, stop) ==
    existing.latlong # stop.latlong \/ existing.common_name # stop.common_name

\* the dict stops of lines 154-180: a later row replaces an earlier one of its code
RECURSIVE StopCandidates(_, _, _)
StopCandidates(s, rows, acc) ==
    IF rows = <<>> THEN acc
    ELSE LET c == StopCandidate(s, Head(rows))
         IN  StopCandidates(s, Tail(rows), Put(acc, c.atco_code, c))

\* do_stops up to and including bulk_update (line 203)
do_stops_update(st) ==
    LET d == st.db
        s == st.self
        stops == StopCandidates(s, TheFeed(s).stops, EmptyDict)
        existing(code) == CHOOSE x \in d.stops : x.atco_code = code
        have == {x.atco_code : x \in d.stops}
        to_update == {stops[c] : c \in {c \in DOMAIN stops \cap have :
                          /\ MayUpdate(existing(c), s.source)
                          /\ NeedsUpdate(existing(c), stops[c])}}
    IN  [db |-> [d EXCEPT !.stops =
                    {x \in d.stops : x.atco_code \notin {u.atco_code : u \in to_update}}
                        \cup to_update],
         self |-> s]

\* do_stops from bulk_create (line 234) to its return value (line 240)
do_stops_create(st) ==
    LET d == st.db
        s == st.self
        stops == StopCandidates(s, TheFeed(s).stops, EmptyDict)
        have == {x.atco_code : x \in d.stops}
        to_create == {stops[c] : c \in (DOMAIN stops) \ have}
        after == d.stops \cup to_create
    IN  [db |-> [d EXCEPT !.stops = after],
         self |-> [s EXCEPT !.stops =
                      [c \in DOMAIN stops |->
                          (CHOOSE x \in after : x.atco_code = c).latlong]]]

do_stops(st) == do_stops_create(do_stops_update(st))

\* ------------------------------------------------------------- trips (phase 1)

BatchSize == 1000

\* sorted(rows, key=lambda x: x.stop_sequence): a stable sort
RECURSIVE InsertBySequence(_, _)
InsertBySequence(sorted, row) ==
    IF sorted = <<>> THEN <<row>>
    ELSE IF Head(sorted).stop_sequence <= row.stop_sequence
         THEN <<Head(sorted)>> \o InsertBySequence(Tail(sorted), row)
         ELSE <<row>> \o sorted

RECURSIVE SortBySequence(_)
SortBySequence(rows) ==
    IF rows = <<>> THEN <<>>
    ELSE InsertBySequence(SortBySequence(SubSeq(rows, 1, Len(rows) - 1)),
                          rows[Len(rows)])

\* stop_times_by_trip[trip_id], lines 371-376: the rows of one trip in feed order
StopTimesOfTrip(feed, trip_id) ==
    SelectSeq(feed.stop_times, LAMBDA line : line.trip_id = trip_id)

\* lines 417: the start of a trip is the departure of its first stop time
TripStart(stop_times) == stop_times[1].departure_time

\* lines 419-420: its end is the arrival of its last stop time
TripEnd(stop_times) == stop_times[Len(stop_times)].arrival_time

\* lines 422-425: its destination is the StopPoint of its last stop time, if any
TripDestination(s, stop_times) ==
    LET stop_id == Prefixed(s.stop_prefix, stop_times[Len(stop_times)].stop_id)
    IN  IF stop_id \in DOMAIN s.stops THEN stop_id ELSE NoneId

\* a bug: the rows are taken in feed order
SortedStopTimes_FeedOrder(rows) == rows

\* line 414: sorted(stop_times_by_trip[trip_id], key=lambda x: x.stop_sequence)
SortedStopTimes(rows) == SortBySequence(rows)

\* lines 401-425: the Trip built from one trips.txt row and the stop-time rows
\* of its trip_id, not yet saved
BuildTripFrom(s, line, rows) ==
    LET stop_times == SortedStopTimes(rows)
        timed == stop_times # <<>>
    IN  [id |-> NULL,
         route |-> s.routes[line.route_id].id,
         calendar |-> line.service_id,
         inbound |-> line.direction_id = 1,
         headsign |-> line.trip_headsign,
         ticket_machine_code |-> line.trip_id,
         operator |-> s.route_operators[line.route_id],
         start |-> IF timed THEN TripStart(stop_times) ELSE NoTime,
         end |-> IF timed THEN TripEnd(stop_times) ELSE NoTime,
         destination |-> IF timed THEN TripDestination(s, stop_times) ELSE NoneId]

BuildTrip(s, line) == BuildTripFrom(s, line, StopTimesOfTrip(TheFeed(s), line.trip_id))

\* a bug: the primary keys of the batch are not recorded
BatchKeys_None(valid_trips, first) == EmptyDict

\* lines 436-437 and 442-443: the entries of trip_id_to_pk for one batch whose
\* primary keys start after first; of two trips with one trip_id the later
\* one stays
BatchKeys(valid_trips, first) ==
    [c \in {valid_trips[k].ticket_machine_code : k \in 1..Len(valid_trips)} |->
        first + MaxOf({k \in 1..Len(valid_trips) :
                          valid_trips[k].ticket_machine_code = c})]

\* Trip.objects.bulk_create(valid_trips) and lines 436-437: the trips get the
\* next primary keys in the order of the list
bulk_create_trips(st, valid_trips) ==
    Then(BatchKeys(valid_trips, st.db.seq.trip), LAMBDA keys :
        [db |-> [st.db EXCEPT
                    !.trips = @ \cup {[valid_trips[k] EXCEPT !.id = st.db.seq.trip + k] :
                                         k \in 1..Len(valid_trips)},
                    !.seq.trip = @ + Len(valid_trips)],
         self |-> [st.self EXCEPT
                      !.trip_id_to_pk =
                          [c \in (DOMAIN @) \cup (DOMAIN keys) |->
                              IF c \in DOMAIN keys THEN keys[c] ELSE @[c]]]])

\* a bug: every trip is taken as having a start
HasNoStart_Never(trip) == FALSE

\* line 427: trip.start is None
HasNoStart(trip) == trip.start = NoTime

\* lines 387-443.  A trip row whose route_id is not in self.routes or whose
\* service_id is not in calendars raises KeyError: the trips buffered in
\* valid_trips are lost, the batches flushed before stay in the store.
RECURSIVE handle_trips(_, _, _)
handle_trips(st, rows, valid_trips) ==
    IF rows = <<>> THEN [st |-> bulk_create_trips(st, valid_trips), raised |-> FALSE]
    ELSE LET line == Head(rows)
             s == st.self
         IN  IF \/ line.route_id \notin DOMAIN s.routes
                \/ line.service_id \notin TheFeed(s).calendar
             THEN [st |-> st, raised |-> TRUE]
             ELSE LET trip == BuildTrip(s, line)
                  IN  IF HasNoStart(trip)
                      THEN handle_trips(
                               [st EXCEPT !.self.trips_without_start = @ + 1],
                               Tail(rows), valid_trips)
                      ELSE LET st1 == [st EXCEPT
                                          !.self.created_trip_ids = @ \cup {line.trip_id},
                                          !.self.trips_with_start = @ + 1]
                               buffered == Append(valid_trips, trip)
                           IN  IF Len(buffered) >= BatchSize
                               THEN handle_trips(bulk_create_trips(st1, buffered),
                                                 Tail(rows), <<>>)
                               ELSE handle_trips(st1, Tail(rows), buffered)

\* ------------------------------------------------------------- stop times (phase 2)

\* line 489: line.arrival_time != departure compares the text of the feed with
\* the integer of line 487; a Python str never equals an int
ArrivalDiffers(arrival_time, departure) == TRUE

\* lines 487-490: the arrival and departure written for one row
StopTimeValues(line) ==
    LET departure == parse_duration(line.departure_time)
    IN  [departure |-> departure,
         arrival |-> IF ArrivalDiffers(line.arrival_time, departure)
                     THEN parse_duration(line.arrival_time) ELSE NULL]

\* parse_duration(...) is None for a text that is no duration: .total_seconds()
\* raises on it (line 487, and line 490 for the arrival)
StopTimeRaises(line) ==
    \/ parse_duration(line.departure_time) = NULL
    \/ /\ ArrivalDiffers(line.arrival_time, parse_duration(line.departure_time))
       /\ parse_duration(line.arrival_time) = NULL

\* lines 460-516: the rows go to one COPY, which the store applies when the
\* with block ends; an exception inside the block aborts the COPY as a whole
RECURSIVE handle_stop_times(_, _, _)
handle_stop_times(st, rows, copied) ==
    IF rows = <<>>
    THEN [st |-> [st EXCEPT !.db.stoptimes = @ \cup copied], raised |-> FALSE]
    ELSE LET line == Head(rows)
             s == st.self
         IN  IF StopTimeRaises(line) THEN [st |-> st, raised |-> TRUE]
             ELSE IF line.trip_id \in s.created_trip_ids
             THEN LET id == st.db.seq.stoptime + 1
                      v == StopTimeValues(line)
                      row == [id |-> id,
                              stop |-> Prefixed(s.stop_prefix, line.stop_id),
                              arrival |-> v.arrival,
                              departure |-> v.departure,
                              sequence |-> line.stop_sequence,
                              trip |-> s.trip_id_to_pk[line.trip_id]]
                  IN  handle_stop_times(
                          [st EXCEPT !.db.seq.stoptime = id,
                                     !.self.stop_times_processed = @ + 1],
                          Tail(rows), copied \cup {row})
             ELSE handle_stop_times(
                      [st EXCEPT !.self.stop_times_skipped = @ + 1],
                      Tail(rows), copied)

\* ------------------------------------------------------------- post-pass

\* line 539: self.source.save(update_fields=["datetime"])
save_datetime(st) ==
    [st EXCEPT !.db.datetime[st.self.source] = st.self.datetime]

\* lines 554-565: the routes of the source that this run did not handle lose
\* their service; the current services of the source none of whose routes was
\* handled are retired
clean_up_old_routes(st) ==
    LET d == st.db
        s == st.self
        handled == {s.routes[c].id : c \in DOMAIN s.routes}
        routes1 == {IF r.source = s.source /\ r.id \notin handled
                    THEN [r EXCEPT !.service = NULL] ELSE r : r \in d.routes}
        kept == {r.service : r \in {r \in routes1 : r.id \in handled}}
    IN  [st EXCEPT !.db.routes = routes1,
                   !.db.services =
                       {IF sv.source = s.source /\ sv.current /\ sv.id \notin kept
                        THEN [sv EXCEPT !.current = FALSE] ELSE sv : sv \in d.services}]

\* ------------------------------------------------------------- do_route_links

\* trip.geometry.project(point): the distance along a straight shape of the
\* point of the shape nearest to the stop
Project(length, latlong) ==
    IF latlong < 0 THEN 0 ELSE IF latlong > length THEN length ELSE latlong

\* a bug: every substring is taken as a LineString
IsLineString_Always(start_dist, end_dist) == TRUE

\* type(so.substring(geometry, start_dist, end_dist)) is so.LineString:
\* between equal distances the substring is a Point
IsLineString(start_dist, end_dist) == start_dist # end_dist

\* feed.get_trips(as_gdf=True).drop_duplicates("shape_id"): the first trip of
\* each shape_id, in feed order
RECURSIVE DropDuplicateShapes(_, _)
DropDuplicateShapes(trips, seen) ==
    IF trips = <<>> THEN <<>>
    ELSE IF Head(trips).shape_id \in seen
         THEN DropDuplicateShapes(Tail(trips), seen)
         ELSE <<Head(trips)>>
                  \o DropDuplicateShapes(Tail(trips), seen \cup {Head(trips).shape_id})

ShapeTrips(feed) == DropDuplicateShapes(feed.trips, {})

\* a bug: the links of the store are not looked up
ExistingRouteLinks_None(d, source) == {}

\* lines 581-584: RouteLink.objects.filter(service__source=source)
ExistingRouteLinks(d, source) ==
    {rl \in d.routelinks :
        \E sv \in d.services : sv.id = rl.service /\ sv.source = source}

\* a bug: a key is never taken as linked already
AlreadyLinked_Never(key, acc) == FALSE

\* line 607: key in route_links
AlreadyLinked(key, acc) == key \in DOMAIN acc

\* lines 598-633: one stop pair (a, b) of a trip.  start_dist is NULL for
\* None; acc maps each key to its RouteLink, whose id is NULL until it is
\* created.  The result is start_dist and route_links after the pair.
LinkPair(st, service, length, a, b, start_dist, acc) ==
    LET s == st.self
        from_stop_id == Prefixed(s.stop_prefix, a.stop_id)
        to_stop_id == Prefixed(s.stop_prefix, b.stop_id)
        key == <<service, from_stop_id, to_stop_id>>
        existing == {rl \in ExistingRouteLinks(st.db, s.source) :
                        <<rl.service, rl.from_stop, rl.to_stop>> = key}
        start == IF start_dist = NULL \/ start_dist = 0
                 THEN Project(length, s.stops[from_stop_id]) ELSE start_dist
        end_dist == Project(length, s.stops[to_stop_id])
        rl == [id |-> IF existing = {} THEN NULL
                      ELSE (CHOOSE x \in existing : TRUE).id,
               service |-> service, from_stop |-> from_stop_id,
               to_stop |-> to_stop_id, geometry |-> <<start, end_dist>>]
    IN  IF AlreadyLinked(key, acc)
        THEN [start_dist |-> NULL, acc |-> acc]
        ELSE [start_dist |-> end_dist,
              acc |-> IF IsLineString(start, end_dist) THEN Put(acc, key, rl) ELSE acc]

\* lines 595-633: pairwise over the stop times of one trip, in feed order
RECURSIVE LinkPairs(_, _, _, _, _, _)
LinkPairs(st, service, length, rows, start_dist, acc) ==
    IF Len(rows) < 2 THEN acc
    ELSE Then(LinkPair(st, service, length, rows[1], rows[2], start_dist, acc),
              LAMBDA step :
                  LinkPairs(st, service, length, Tail(rows), step.start_dist, step.acc))

\* lines 587-633: every shape's first trip
RECURSIVE LinkTrips(_, _, _)
LinkTrips(st, trips, acc) ==
    IF trips = <<>> THEN acc
    ELSE LET trip == Head(trips)
         IN  IF trip.shape_id = ""
             THEN LinkTrips(st, Tail(trips), acc)
             ELSE LinkTrips(st, Tail(trips),
                      LinkPairs(st, st.self.routes[trip.route_id].service_id,
                                Shapes[trip.shape_id],
                                StopTimesOfTrip(TheFeed(st.self), trip.trip_id),
                                NULL, acc))

\* lines 635-638: bulk_update of the links that have an id, bulk_create of the rest
RECURSIVE bulk_create_links(_, _)
bulk_create_links(d, links) ==
    IF links = {} THEN d
    ELSE LET rl == CHOOSE x \in links : TRUE
             id == d.seq.routelink + 1
         IN  bulk_create_links(
                 [d EXCEPT !.routelinks = @ \cup {[rl EXCEPT !.id = id]},
                           !.seq.routelink = id],
                 links \ {rl})

\* lines 635-638: the links that have a row are updated, the others created
save_route_links(d, route_links) ==
    LET links == {route_links[k] : k \in DOMAIN route_links}
        updated == {rl \in links : rl.id # NULL}
        d1 == [d EXCEPT !.routelinks =
                  {x \in @ : x.id \notin {rl.id : rl \in updated}} \cup updated]
    IN  bulk_create_links(d1, links \ updated)

do_route_links(st) ==
    [st EXCEPT !.db = save_route_links(
                          st.db, LinkTrips(st, ShapeTrips(TheFeed(st.self)), EmptyDict))]

\* ------------------------------------------------------------- the ingestion run

\* handle, lines 66-90, and handle_zipfile, lines 327-330 and 380-384
NewSelf(source, feed) ==
    [source |-> source,
     feed |-> feed.name,
     agency_prefix |-> Settings(source).agency_prefix,
     stop_prefix |-> Settings(source).stop_prefix,
     operator_noc |-> Settings(source).operator_noc,
     default_operator |-> Settings(source).default_operator,
     operator_matching |-> Settings(source).operator_matching,
     skip_route_links |-> Settings(source).skip_route_links,
     datetime |-> NULL,
     operators |-> EmptyDict,
     routes |-> EmptyDict,
     route_operators |-> EmptyDict,
     services |-> {},
     stops |-> EmptyDict,
     created_trip_ids |-> {},
     trip_id_to_pk |-> EmptyDict,
     trips_with_start |-> 0,
     trips_without_start |-> 0,
     stop_times_processed |-> 0,
     stop_times_skipped |-> 0]

State == [db |-> db, self |-> self]

\* the rows a source has in the store
RoutesOf(d, source) == {r \in d.routes : r.source = source}

TripsOf(d, source) == {t \in d.trips : t.route \in {r.id : r \in RoutesOf(d, source)}}

StopTimesOf(d, source) ==
    {x \in d.stoptimes : x.trip \in {t.id : t \in TripsOf(d, source)}}

\* what the run that just ended ingested and what it left for its source
Summary ==
    [source |-> self.source, feed |-> self.feed, outcome |-> pc,
     routes |-> Cardinality(RoutesOf(db, self.source)),
     trips |-> Cardinality(TripsOf(db, self.source)),
     stoptimes |-> Cardinality(StopTimesOf(db, self.source))]

Ended == pc \in {"idle", "done", "failed", "skipped"}

\* a bug: every call of handle runs handle_zipfile
Gate_Always(source, feed, modified, force) == TRUE

\* handle, lines 95-99: the run starts if the download changed the file, if its
\* Last-Modified is not the one saved for the source, or with --force
Gate(source, feed, modified, force) ==
    modified \/ feed.last_modified # db.datetime[source] \/ force

handle(source, feed, modified, force) ==
    /\ Ended
    /\ runs < MaxRuns
    /\ runs' = runs + 1
    /\ prev' = Summary
    /\ before' = db
    /\ IF Gate(source, feed, modified, force)
       THEN /\ self' = [NewSelf(source, feed) EXCEPT !.datetime = feed.last_modified]
            /\ pc' = "agencies"
       ELSE /\ self' = NewSelf(source, feed)
            /\ pc' = "skipped"
    /\ UNCHANGED <<db, live, calc, walk, poll, cmd>>

Agencies ==
    /\ pc = "agencies"
    /\ LET st == handle_agencies(State, TheFeed(self).agency)
       IN  db' = st.db /\ self' = st.self
    /\ pc' = "routes"
    /\ UNCHANGED <<before, prev, runs, live, calc, walk, poll, cmd>>

Routes ==
    /\ pc = "routes"
    /\ LET st == handle_routes(State, TheFeed(self).routes)
       IN  db' = st.db /\ self' = st.self
    /\ pc' = "stops"
    /\ UNCHANGED <<before, prev, runs, live, calc, walk, poll, cmd>>

\* do_stops; bulk_create (line 234) may raise, and do_stops raises it again
Stops ==
    /\ pc = "stops"
    /\ \E raised \in BOOLEAN :
          LET st == IF raised THEN do_stops_update(State) ELSE do_stops(State)
          IN  /\ db' = st.db
              /\ self' = st.self
              /\ pc' = IF raised THEN "failed" ELSE "trips"
    /\ UNCHANGED <<before, prev, runs, live, calc, walk, poll, cmd>>

Trips ==
    /\ pc = "trips"
    /\ LET r == handle_trips(State, TheFeed(self).trips, <<>>)
       IN  /\ db' = r.st.db
           /\ self' = r.st.self
           /\ pc' = IF r.raised THEN "failed" ELSE "stoptimes"
    /\ UNCHANGED <<before, prev, runs, live, calc, walk, poll, cmd>>

StopTimes ==
    /\ pc = "stoptimes"
    /\ LET r == handle_stop_times(State, TheFeed(self).stop_times, {})
       IN  /\ db' = r.st.db
           /\ self' = r.st.self
           /\ pc' = IF r.raised THEN "failed" ELSE "post"
    /\ UNCHANGED <<before, prev, runs, live, calc, walk, poll, cmd>>

PostPass ==
    /\ pc = "post"
    /\ LET st == clean_up_old_routes(save_datetime(State))
       IN  db' = st.db /\ self' = st.self
    /\ pc' = "links"
    /\ UNCHANGED <<before, prev, runs, live, calc, walk, poll, cmd>>

RouteLinks ==
    /\ pc = "links"
    /\ LET st == IF self.skip_route_links THEN State ELSE do_route_links(State)
       IN  db' = st.db /\ self' = st.self
    /\ pc' = "done"
    /\ UNCHANGED <<before, prev, runs, live, calc, walk, poll, cmd>>

\* no run of handle yet
NoRun ==
    /\ self = NewSelf("", NoFeed)
    /\ pc = "idle"
    /\ before = EmptyStore
    /\ prev = [source |-> "", feed |-> "", outcome |-> "idle",
               routes |-> 0, trips |-> 0, stoptimes |-> 0]
    /\ runs = 0

NoLive == [at |-> "off"]

NoCalc == [at |-> "off"]

NoWalk == [at |-> "off"]

NoPoll == [at |-> "off"]

NoCmd == [at |-> "off"]

Init ==
    /\ db = EmptyStore
    /\ NoRun
    /\ live = NoLive
    /\ calc = NoCalc
    /\ walk = NoWalk
    /\ poll = NoPoll
    /\ cmd = NoCmd

Start ==
    \E source \in Sources, feed \in Feeds, modified \in BOOLEAN, force \in BOOLEAN :
        handle(source, feed, modified, force)

Next ==
    \/ Start
    \/ Agencies
    \/ Routes
    \/ Stops
    \/ Trips
    \/ StopTimes
    \/ PostPass
    \/ RouteLinks

Spec == Init /\ [][Next]_vars

\* ------------------------------------------------------------- handle_zipfile

\* handle_zipfile from its first to its last line on a feed, bulk_create of
\* the stops succeeding: the state it leaves and whether it raised
handle_zipfile(st0) ==
    Then(handle_agencies(st0, TheFeed(st0.self).agency), LAMBDA st1 :
    Then(handle_routes(st1, TheFeed(st1.self).routes), LAMBDA st2 :
    Then(do_stops(st2), LAMBDA st3 :
    Then(handle_trips(st3, TheFeed(st3.self).trips, <<>>), LAMBDA r4 :
        IF r4.raised THEN r4
        ELSE
    Then(handle_stop_times(r4.st, TheFeed(r4.st.self).stop_times, {}), LAMBDA r5 :
        IF r5.raised THEN r5
        ELSE
    Then(clean_up_old_routes(save_datetime(r5.st)), LAMBDA st6 :
        [st |-> IF st6.self.skip_route_links THEN st6 ELSE do_route_links(st6),
         raised |-> FALSE]))))))

\* the store after forced runs of handle for a list of <<source, feed>>
RECURSIVE Ingested(_, _)
Ingested(d, todo) ==
    IF todo = <<>> THEN d
    ELSE LET source == Head(todo)[1]
             feed == Head(todo)[2]
         IN  Then([db |-> d,
                   self |-> [NewSelf(source, feed) EXCEPT
                                !.datetime = feed.last_modified]],
                  LAMBDA st0 :
             Then(handle_zipfile(st0).st.db, LAMBDA after :
                  Ingested(after, Tail(todo))))

\* ------------------------------------------------------------- live matching

\* the source of the realtime command (do_source)
LiveSource == "A"

\* the commands that match reports: import_gtfsr_translink_qld and
\* import_gtfsr_worldwide
Dialects == {"translink_qld", "worldwide"}

NoJourney ==
    [id |-> NULL, code |-> <<>>, datetime |-> <<"", "">>, service |-> NULL,
     trip |-> NULL, destination |-> "", route_name |-> ""]

\* item.vehicle of a FeedEntity: the fields get_vehicle and get_journey read;
\* an absent start_date or start_time is the empty text
Item(vehicle_id, route_id, trip_id, start_date, start_time, direction_id) ==
    [vehicle_id |-> vehicle_id, route_id |-> route_id, trip_id |-> trip_id,
     start_date |-> start_date, start_time |-> start_time,
     direction_id |-> direction_id]

NoItem == Item("", <<>>, <<>>, "", "", 0)

NewVehicle(code) ==
    [code |-> code, operator |-> NoneId, latest_journey |-> NoJourney,
     latest_journey_data |-> NoItem]

\* bustimes.utils.get_calendars(date, calendar_ids): the calendars that run on
\* the date
get_calendars(start_date, calendar_ids) ==
    {c \in calendar_ids :
        \/ c = "wk" /\ start_date = "20260105"
        \/ c = "we" /\ start_date = "20260110"}

RouteOf(d, trip) == CHOOSE r \in d.routes : r.id = trip.route

\* "_" + suffix is the end of code: route__code__endswith=f"_{route_suffix}"
EndsWithUnderscore(code, suffix) ==
    /\ Len(code) > Len(suffix)
    /\ SubSeq(code, Len(code) - Len(suffix) + 1, Len(code)) = suffix

\* lines 142-144 (141-146 worldwide): what the Route codes are to end with
RouteSuffix(item) ==
    IF Len(item.route_id) > 1 THEN Tail(item.route_id) ELSE item.route_id

\* lines 146-149: the rows of Service.objects.filter(route__source=...,
\* route__code__endswith=...), one for each Service and Route that join
SuffixRows(d, source, suffix) ==
    {<<r.service, r.id>> : r \in {r \in d.routes :
        /\ r.source = source
        /\ EndsWithUnderscore(r.code, suffix)
        /\ \E sv \in d.services : sv.id = r.service}}

\* .get(): the Service, or None when the rows are none or several
SuffixService(d, source, suffix) ==
    LET rows == SuffixRows(d, source, suffix)
    IN  IF Cardinality(rows) = 1 THEN (CHOOSE row \in rows : TRUE)[1] ELSE NULL

\* lines 118-122: the current Services with a Route of the source coded route_id
ServicesByRouteCode(d, source, route_id) ==
    {sv \in d.services :
        /\ sv.current
        /\ \E r \in d.routes :
              r.service = sv.id /\ r.source = source /\ r.code = route_id}

\* lines 124-128: the current Services with a Route of the source that has a
\* Trip coded like the journey
ServicesByTripCode(d, source, code) ==
    {sv \in d.services :
        /\ sv.current
        /\ \E r \in d.routes :
              /\ r.service = sv.id /\ r.source = source
              /\ \E t \in d.trips : t.route = r.id /\ t.ticket_machine_code = code}

\* a bug: the trips are not narrowed to the Service
TripsOfService_All(d, trips, service) == trips

\* trips.filter(route__service=service), lines 135 and 161
TripsOfService(d, trips, service) ==
    {t \in trips : RouteOf(d, t).service = service}

\* trips.filter(route__source=self.source), lines 137 and 154
TripsOfSource(d, trips, source) ==
    {t \in trips : RouteOf(d, t).source = source}

\* get_vehicle: the vehicle code is what follows the last "_" of the vehicle id
VehicleCode(vehicle_id) == vehicle_id[Len(vehicle_id)]

\* has_schedule_data (translink_qld, line 108)
HasScheduleData(item) == item.start_date # "" /\ item.start_time # ""

\* worldwide, lines 101-108: strptime raises on an absent start_date, and the
\* sum on the None that parse_duration gives for an absent start_time;
\* translink_qld, lines 90-103, takes the current time instead
DatetimeRaises(dialect, item) == dialect = "worldwide" /\ ~HasScheduleData(item)

\* the date of datetime.now(self.tzinfo) while the reports are polled
Today == "20260110"

JourneyDatetime(item) ==
    IF HasScheduleData(item) THEN <<item.start_date, item.start_time>>
    ELSE <<"now", "now">>

\* lines 84-87 (112-115 worldwide): the cached journey has the code of the report
SameJourney(vehicle, item) ==
    vehicle.latest_journey.id # NULL /\ vehicle.latest_journey.code = item.trip_id

\* lines 153-159: the fallback filters the trips of the source by start and
\* direction; translink_qld only with schedule data and a start other than 0
FallbackTrips(d, dialect, item) ==
    LET of_source == TripsOfSource(d, d.trips, LiveSource)
        timed == \/ dialect = "worldwide"
                 \/ HasScheduleData(item) /\ parse_duration(item.start_time) # 0
    IN  IF timed
        THEN {t \in of_source :
                 /\ parse_duration(t.start) = parse_duration(item.start_time)
                 /\ t.inbound = (item.direction_id = 1)}
        ELSE of_source

\* lines 163-170: the Trip of several candidates is the first whose calendar
\* runs on the start date, and one candidate is taken as it is; translink_qld
\* without schedule data takes trips[0], any of them
TripChoices(dialect, item, trips) ==
    IF trips = {} THEN {NULL}
    ELSE IF Cardinality(trips) > 1 /\ (dialect = "worldwide" \/ HasScheduleData(item))
    THEN LET calendars == get_calendars(item.start_date, {t.calendar : t \in trips})
             running == {t.id : t \in {t \in trips : t.calendar \in calendars}}
         IN  IF running = {} THEN {NULL} ELSE {MinOf(running)}
    ELSE {t.id : t \in trips}

\* a bug: the operator of every matched Trip is written onto the Vehicle
Adopts_Always(vehicle, trip) == TRUE

\* line 181 (181 worldwide): trip.operator_id and not vehicle.operator_id
Adopts(vehicle, trip) == trip.operator # NoneId /\ vehicle.operator = NoneId

\* get_journey past the short-circuit, for one choice services[0] of the
\* Services found (NULL when none was): the journeys it may return, each with
\* the vehicle as it leaves it
MatchJourney(d, dialect, item, vehicle, service0) ==
    LET code == item.trip_id
        coded == {t \in d.trips : t.ticket_machine_code = code}
        trips0 == IF service0 # NULL THEN TripsOfService(d, coded, service0)
                  ELSE TripsOfSource(d, coded, LiveSource)
        fallback == trips0 = {} /\ service0 = NULL /\ Len(code) > 1
        service == IF fallback THEN SuffixService(d, LiveSource, RouteSuffix(item))
                   ELSE service0
        trips == IF ~fallback THEN trips0
                 ELSE IF service # NULL
                 THEN TripsOfService(d, FallbackTrips(d, dialect, item), service)
                 ELSE FallbackTrips(d, dialect, item)
    IN  {LET trip == CHOOSE t \in d.trips : t.id = pk
             journey_service == IF service # NULL THEN service
                                ELSE IF pk # NULL THEN RouteOf(d, trip).service
                                ELSE NULL
         IN  [raised |-> FALSE,
              reused |-> FALSE,
              candidates |-> {t.id : t \in trips},
              journey |->
                  [id |-> NULL, code |-> code, datetime |-> JourneyDatetime(item),
                   service |-> journey_service,
                   trip |-> pk,
                   destination |-> IF pk # NULL THEN trip.headsign ELSE "",
                   route_name |->
                       IF journey_service # NULL
                       THEN (CHOOSE sv \in d.services : sv.id = journey_service).line_name
                       ELSE ""],
              vehicle |->
                  [vehicle EXCEPT
                      !.operator = IF pk # NULL /\ Adopts(vehicle, trip)
                                   THEN trip.operator ELSE @,
                      !.latest_journey_data = item]]
         : pk \in TripChoices(dialect, item, trips)}

\* get_journey(item, vehicle): what it may do
get_journey(d, dialect, item, vehicle) ==
    LET by_route == ServicesByRouteCode(d, LiveSource, item.route_id)
        services == IF by_route # {} THEN by_route
                    ELSE ServicesByTripCode(d, LiveSource, item.trip_id)
        first == IF services = {} THEN {NULL} ELSE {sv.id : sv \in services}
        failure == [raised |-> TRUE, reused |-> FALSE, candidates |-> {},
                    journey |-> NoJourney, vehicle |-> vehicle]
        cached == [raised |-> FALSE, reused |-> TRUE, candidates |-> {},
                   journey |-> vehicle.latest_journey, vehicle |-> vehicle]
        matched == UNION {MatchJourney(d, dialect, item, vehicle, sv) : sv \in first}
    IN  IF dialect = "worldwide"
        THEN IF DatetimeRaises(dialect, item) THEN {failure}
             ELSE IF SameJourney(vehicle, item) THEN {cached} ELSE matched
        ELSE IF SameJourney(vehicle, item) THEN {cached} ELSE matched

\* ------------------------------------------------------------- the polling of reports

MaxJourneys == 2

\* the schedules that the reports are matched against: what runs of handle
\* leave in the store
\* the store with its Trips of ticket_machine_code t2 given to another operator
OtherOperator(d) ==
    [d EXCEPT !.trips = {IF t.ticket_machine_code = T2
                         THEN [t EXCEPT !.operator = Raw("ag2")] ELSE t : t \in @}]

LiveStores ==
    {Ingested(EmptyStore, <<<<"A", FeedNamed("F1")>>>>),
     Ingested(EmptyStore, <<<<"A", FeedNamed("F3")>>>>),
     Ingested(EmptyStore, <<<<"A", FeedNamed("F3")>>, <<"A", FeedNamed("F2")>>>>),
     Ingested(EmptyStore, <<<<"B", FeedNamed("F1")>>, <<"A", FeedNamed("F1")>>>>),
     Ingested(EmptyStore, <<<<"A", FeedNamed("F6")>>>>),
     OtherOperator(Ingested(EmptyStore, <<<<"A", FeedNamed("F1")>>>>))}

\* the reports of the model
LiveItems ==
    {Item(<<"h", "v1">>, r, t, sch[1], sch[2], sch[3]) :
        r \in {R1, <<"99", "456">>, <<"77">>},
        t \in {T1, T2, T4, <<"123", "456">>},
        sch \in {<<"", "", 0>>, <<"20260105", "08:00:00", 0>>,
                 <<"20260110", "08:05:00", 1>>, <<"20260105", "08:12:00", 1>>}}

\* ImportLiveVehiclesCommand.handle_item for one report: get_vehicle, then
\* get_journey, then a journey that is not the cached one is saved and becomes
\* the vehicle's latest journey
handle_item(item) ==
    /\ live.at # "off"
    /\ live.saved < MaxJourneys
    /\ LET code == VehicleCode(item.vehicle_id)
           known == {v \in live.vehicles : v.code = code}
           vehicle == IF known = {} THEN NewVehicle(code) ELSE CHOOSE v \in known : TRUE
           others == live.vehicles \ known
       IN  \E out \in get_journey(db, live.dialect, item, vehicle) :
              LET journey == IF out.raised \/ out.reused THEN out.journey
                             ELSE [out.journey EXCEPT !.id = live.saved + 1]
                  after == IF out.raised \/ out.reused THEN out.vehicle
                           ELSE [out.vehicle EXCEPT !.latest_journey = journey]
              IN  live' = [live EXCEPT
                              !.at = IF out.raised THEN "raised" ELSE "returned",
                              !.vehicles = others \cup {after},
                              !.saved = IF out.raised \/ out.reused THEN @ ELSE @ + 1,
                              !.item = item,
                              !.journey = journey,
                              !.reused = out.reused,
                              !.candidates = out.candidates,
                              !.was = vehicle]
    /\ UNCHANGED <<db, self, pc, before, prev, runs, calc, walk, poll, cmd>>

InitLive ==
    /\ db \in LiveStores
    /\ NoRun
    /\ calc = NoCalc
    /\ walk = NoWalk
    /\ poll = NoPoll
    /\ cmd = NoCmd
    /\ \E dialect \in Dialects :
          live = [at |-> "ready", dialect |-> dialect, vehicles |-> {}, saved |-> 0,
                  item |-> NoItem, journey |-> NoJourney, reused |-> FALSE,
                  candidates |-> {}, was |-> NewVehicle("")]

NextLive == \E item \in LiveItems : handle_item(item)

SpecLive == InitLive /\ [][NextLive]_vars

\* ------------------------------------------- building one trip (lines 401-425)
\* The trip-building step of handle_zipfile on its own: the stop-time rows of
\* one trip arrive in any order of the file, and the step builds the Trip.

MaxStopTimes == 3

MaxSequence == 3

\* (arrival_time, departure_time) of a stop time
CalcTimes == {<<"08:00:00", "08:00:00">>, <<"08:05:00", "08:05:00">>,
              <<"08:10:00", "08:12:00">>}

CalcStops == {Raw("1"), Raw("3")}

CalcRows ==
    {StopTimeRow(T1, seq, stop, at[1], at[2]) :
        seq \in 1..MaxSequence, stop \in CalcStops, at \in CalcTimes}

\* the rows of one trip in file order: no stop_sequence twice
CalcInputs ==
    {rows \in UNION {[1..n -> CalcRows] : n \in 1..MaxStopTimes} :
        \A i, j \in DOMAIN rows :
            rows[i].stop_sequence = rows[j].stop_sequence => i = j}

\* the Command once routes.txt and stops.txt of the trip's feed are read
CalcSelf ==
    [NewSelf("A", NoFeed) EXCEPT
        !.routes = Put(EmptyDict, R1, [id |-> 1, service_id |-> 1]),
        !.route_operators = Put(EmptyDict, R1, NoneId),
        !.stops = [c \in {Prefixed("s-", x) : x \in CalcStops} |-> 0]]

InitTrip ==
    /\ db = EmptyStore
    /\ NoRun
    /\ live = NoLive
    /\ walk = NoWalk
    /\ poll = NoPoll
    /\ cmd = NoCmd
    /\ \E rows \in CalcInputs :
          calc = [at |-> "rows", stop_times |-> rows,
                  trip |-> BuildTripFrom(CalcSelf, TripRow(T1, R1, "wk", 0, "Depot", ""), <<>>)]

\* lines 401-425 for the trips.txt row of the trip
build_trip ==
    /\ calc.at = "rows"
    /\ calc' = [calc EXCEPT
                   !.at = "built",
                   !.trip = BuildTripFrom(CalcSelf, TripRow(T1, R1, "wk", 0, "Depot", ""),
                                          calc.stop_times)]
    /\ UNCHANGED <<db, self, pc, before, prev, runs, live, walk, poll, cmd>>

NextTrip == build_trip

SpecTrip == InitTrip /\ [][NextTrip]_vars

\* ------------------------------------ the stop pairs of one trip (lines 595-638)
\* do_route_links on its own, for one trip with a shape: the loop over the
\* stop pairs of the trip, one pair a step, then the bulk update and create.

MaxWalk == 4

MaxPos == 2

WalkStops == {Raw("1"), Raw("2"), Raw("3")}

\* the stop times of the trip in feed order
WalkRows ==
    UNION {[1..n -> {StopTimeRow(T1, 1, stop, "08:00:00", "08:00:00") : stop \in WalkStops}]
              : n \in 2..MaxWalk}

\* where each stop projects on the shape, a straight line from 0 to MaxPos
WalkPositions == [{Prefixed("s-", x) : x \in WalkStops} -> 0..MaxPos]

\* the store after a run for source A, with its RouteLinks and without them
WalkStores ==
    LET d == Ingested(EmptyStore, <<<<"A", FeedNamed("F1")>>>>)
    IN  {d, [d EXCEPT !.routelinks = {}]}

\* the Service of the Route of the trip (line 591)
WalkService == 1

\* the Command and the store that do_route_links is called with
WalkState == [db |-> db, self |-> [NewSelf("A", NoFeed) EXCEPT !.stops = walk.positions]]

InitWalk ==
    /\ db \in WalkStores
    /\ NoRun
    /\ live = NoLive
    /\ calc = NoCalc
    /\ poll = NoPoll
    /\ cmd = NoCmd
    /\ \E rows \in WalkRows, positions \in WalkPositions :
          walk = [at |-> "pairs", rows |-> rows, positions |-> positions, i |-> 1,
                  start_dist |-> NULL, route_links |-> EmptyDict]

\* lines 595-633 for the pair of the rows i and i + 1
link_pair ==
    /\ walk.at = "pairs"
    /\ LET step == LinkPair(WalkState, WalkService, MaxPos, walk.rows[walk.i],
                            walk.rows[walk.i + 1], walk.start_dist, walk.route_links)
       IN  walk' = [walk EXCEPT
                       !.at = IF walk.i + 1 < Len(walk.rows) THEN "pairs" ELSE "save",
                       !.i = @ + 1,
                       !.start_dist = step.start_dist,
                       !.route_links = step.acc]
    /\ UNCHANGED <<db, self, pc, before, prev, runs, live, calc, poll, cmd>>

\* lines 635-638
link_save ==
    /\ walk.at = "save"
    /\ db' = save_route_links(db, walk.route_links)
    /\ walk' = [walk EXCEPT !.at = "saved"]
    /\ UNCHANGED <<self, pc, before, prev, runs, live, calc, poll, cmd>>

NextWalk == link_pair \/ link_save

SpecWalk == InitWalk /\ [][NextWalk]_vars

\* --------------------------------------------- import_thirdrails: polling loop
\* Command.handle of import_thirdrails.py: in continuous mode a loop of
\* import_data and sleep; import_data fetches the records of the API and
\* takes them one after the other.  A KeyboardInterrupt is raised by the
\* interpreter in the main thread, wherever the program is.

MaxPolls == 2

MaxBatch == 2

\* a record of the API: the keys that import_data reads
Record(unique_name, points) == [UniqueName |-> unique_name, Points |-> points]

\* vehicle.latest_journey_data of a vehicle that has no journey yet (None)
NoData == Record("", "None")

Records == {Record(n, p) : n \in {"", "u1"}, p \in {"", "1,1", "2,2"}}

\* what response.json() may give: nothing, or up to MaxBatch records
Batches == UNION {[1..n -> Records] : n \in 0..MaxBatch}

\* lines 86-107: a Point, or None for a text that is no coordinate pair
parse_coordinates(points_str) == IF points_str \in {"1,1", "2,2"} THEN points_str ELSE "None"

\* lines 117-151: the vehicles after get_or_create_vehicle(item)
get_or_create_vehicle(vehicles, item) ==
    IF \E v \in vehicles : v.thirdrails_id = item.UniqueName THEN vehicles
    ELSE vehicles \cup {[thirdrails_id |-> item.UniqueName, latest_journey |-> NULL,
                          latest_journey_data |-> NoData]}

\* a bug: every record is new
IsNew_Always(vehicle, item) == TRUE

\* lines 244-251: the record is new unless its Points are those of the
\* vehicle's latest journey data
IsNew(vehicle, item) ==
    ~(vehicle.latest_journey_data # NoData
        /\ vehicle.latest_journey_data.Points = item.Points)

\* lines 232-264 for one record that raises nothing: the vehicles, the
\* journeys and the counters after it
import_item(p, item) ==
    IF item.UniqueName = "" THEN p
    ELSE LET vehicles == get_or_create_vehicle(p.vehicles, item)
             vehicle == CHOOSE v \in vehicles : v.thirdrails_id = item.UniqueName
             journey == IsNew(vehicle, item) /\ parse_coordinates(item.Points) # "None"
         IN  [p EXCEPT
                 !.vehicles = IF journey
                              THEN (vehicles \ {vehicle})
                                       \cup {[vehicle EXCEPT
                                                 !.latest_journey = p.journeys + 1,
                                                 !.latest_journey_data = item]}
                              ELSE vehicles,
                 !.journeys = IF journey THEN @ + 1 ELSE @,
                 !.updated = IF journey THEN @ + 1 ELSE @,
                 !.processed = @ + 1]

\* a bug: an exception of import_data ends the command
AfterImport_Exits(continuous, raised) ==
    IF ~continuous \/ raised THEN "exit" ELSE "sleep"

\* lines 286-299: where the loop goes when import_data is over, by how it ended
AfterImport(continuous, raised) ==
    IF ~continuous THEN "exit"
    ELSE IF raised THEN "error_sleep" ELSE "sleep"

InitPoll ==
    /\ db = EmptyStore
    /\ NoRun
    /\ live = NoLive
    /\ calc = NoCalc
    /\ walk = NoWalk
    /\ cmd = NoCmd
    /\ \E continuous \in BOOLEAN :
          poll = [at |-> "fetch", continuous |-> continuous, fetches |-> 0,
                  last |-> "none", routes |-> <<>>, i |-> 1, processed |-> 0,
                  updated |-> 0, vehicles |-> {}, journeys |-> 0, signal |-> FALSE]

PollUnchanged == UNCHANGED <<db, self, pc, before, prev, runs, live, calc, walk, cmd>>

\* lines 222-230: fetch_data gives the records, or None after a request or
\* JSON error; anything else that goes wrong leaves import_data as an exception
poll_fetch ==
    /\ poll.at = "fetch"
    /\ poll.fetches < MaxPolls
    /\ \/ \E routes \in Batches :
             poll' = [poll EXCEPT
                         !.fetches = @ + 1, !.last = "fetched", !.routes = routes,
                         !.i = 1, !.processed = 0, !.updated = 0,
                         !.at = IF routes = <<>>
                                THEN AfterImport(poll.continuous, FALSE) ELSE "items"]
       \/ poll' = [poll EXCEPT
                      !.fetches = @ + 1, !.last = "failed", !.routes = <<>>, !.i = 1,
                      !.at = AfterImport(poll.continuous, FALSE)]
       \/ poll' = [poll EXCEPT
                      !.fetches = @ + 1, !.last = "raised", !.routes = <<>>, !.i = 1,
                      !.at = AfterImport(poll.continuous, TRUE)]
    /\ PollUnchanged

\* lines 232-269 for the next record: it is imported, or it raises an
\* Exception, which is logged
poll_item ==
    /\ poll.at = "items"
    /\ LET next == [poll EXCEPT
                       !.i = @ + 1,
                       !.at = IF poll.i < Len(poll.routes) THEN "items"
                              ELSE AfterImport(poll.continuous, FALSE)]
       IN  \/ poll' = import_item(next, poll.routes[poll.i])
           \/ poll' = next
    /\ PollUnchanged

\* line 290 and line 299: sleep(interval) returns
poll_sleep ==
    /\ poll.at \in {"sleep", "error_sleep"}
    /\ poll' = [poll EXCEPT !.at = "fetch"]
    /\ PollUnchanged

\* a KeyboardInterrupt: inside the try of line 287 it is caught and the loop
\* is left (lines 291-293), elsewhere it ends the command
poll_interrupt ==
    /\ poll.at \in {"fetch", "items", "sleep", "error_sleep"}
    /\ poll' = [poll EXCEPT
                   !.signal = TRUE,
                   !.at = IF poll.continuous /\ poll.at # "error_sleep"
                          THEN "stopped" ELSE "killed"]
    /\ PollUnchanged

PollStep == poll_fetch \/ poll_item \/ poll_sleep

NextPoll == poll_fetch \/ poll_item \/ poll_sleep \/ poll_interrupt

SpecPoll == InitPoll /\ [][NextPoll]_vars

\* the program takes its next step; a signal may never come
SpecPollFair == SpecPoll /\ WF_vars(PollStep)

\* ------------------------------------------- handle as a whole (lines 65-104)
\* Runs of import_gtfs_worldwide one after the other, each from its arguments
\* and what the download gives to the store it leaves.

MaxHandles == 3

InitGate ==
    /\ db = EmptyStore
    /\ NoRun
    /\ live = NoLive
    /\ calc = NoCalc
    /\ walk = NoWalk
    /\ poll = NoPoll
    /\ cmd = [at |-> "ready", handles |-> 0, file |-> [s \in Sources |-> ""]]

\* download_if_modified(path, source): whether the file at path was fetched
\* anew.  The answer can be no only when the file at path, which is the feed
\* file[source], is the feed that the server has.
download_if_modified(file, source, feed) ==
    {TRUE} \cup (IF file[source] = feed.name THEN {FALSE} ELSE {})

\* handle(source_name, force=force) when download_if_modified gives
\* (modified, feed.last_modified): lines 95-104, with handle_zipfile run to
\* its end or to the exception that leaves it
run_handle(source, feed, modified, force) ==
    /\ cmd.at \in {"ready", "ended"}
    /\ cmd.handles < MaxHandles
    /\ LET ran == Gate(source, feed, modified, force)
           st0 == [db |-> db,
                   self |-> [NewSelf(source, feed) EXCEPT !.datetime = feed.last_modified]]
       IN  \E out \in {IF ran THEN handle_zipfile(st0) ELSE [st |-> st0, raised |-> FALSE]} :
              /\ db' = out.st.db
              /\ cmd' = [at |-> "ended", handles |-> cmd.handles + 1,
                         file |-> [cmd.file EXCEPT ![source] = feed.name],
                         source |-> source,
                         feed |-> feed.name, last_modified |-> feed.last_modified,
                         stored |-> db.datetime[source], modified |-> modified,
                         force |-> force, ran |-> ran, raised |-> out.raised,
                         before |-> db]
    /\ UNCHANGED <<self, pc, before, prev, runs, live, calc, walk, poll>>

NextGate ==
    \E source \in Sources, feed \in Feeds, force \in BOOLEAN :
        \E modified \in download_if_modified(cmd.file, source, feed) :
            run_handle(source, feed, modified, force)

SpecGate == InitGate /\ [][NextGate]_vars

\* ------------------------------------------------------------- delete_source

\* Runs of delete_source one after the other on a store that imports filled.

MaxDeletes == 2

\* DataSource.id of the rows of the model
SourceId(name) == CASE name = "A" -> 1 [] name = "B" -> 2 [] OTHER -> NULL

\* the positional argument, "" when it is left out, and --id, NULL when it is
\* left out
SourceNames == Sources \cup {"", "Z"}

SourceIds == {NULL, 1, 2, 9}

\* lines 19-25: the DataSource that get() finds; none for DoesNotExist and for
\* the call without name and id.  --id is looked at first.
GetSource(d, source_name, source_id) ==
    IF source_id # NULL THEN {x \in d.sources : SourceId(x) = source_id}
    ELSE IF source_name # "" THEN {x \in d.sources : x = source_name}
    ELSE {}

\* on_delete=CASCADE from Route to Trip
DeleteRoutes(d, gone) ==
    DeleteTrips([d EXCEPT !.routes = @ \ gone],
                {t \in d.trips : t.route \in {r.id : r \in gone}})

\* on_delete=CASCADE from Service to Route and to RouteLink
DeleteServices(d, gone) ==
    LET ids == {sv.id : sv \in gone}
    IN  DeleteRoutes([d EXCEPT !.services = @ \ gone,
                               !.routelinks = {rl \in @ : rl.service \notin ids}],
                     {r \in d.routes : r.service \in ids})

\* on_delete=CASCADE from StopPoint to RouteLink, SET_NULL to StopTime.stop
\* and to Trip.destination
DeleteStops(d, gone) ==
    LET codes == {x.atco_code : x \in gone}
    IN  [d EXCEPT !.stops = @ \ gone,
                  !.routelinks = {rl \in @ : rl.from_stop \notin codes
                                             /\ rl.to_stop \notin codes},
                  !.stoptimes = {IF x.stop \in codes THEN [x EXCEPT !.stop = NoneId]
                                 ELSE x : x \in @},
                  !.trips = {IF t.destination \in codes
                             THEN [t EXCEPT !.destination = NoneId]
                             ELSE t : t \in @}]

\* a bug: the Services of the source are left in the store
ServicesOfSource_None(d, source) == {}

\* line 48: Service.objects.filter(source=source)
ServicesOfSource(d, source) == {sv \in d.services : sv.source = source}

\* lines 33-60: the store after the atomic block
DeleteSource(d, source) ==
    LET routes == {r.id : r \in {x \in d.routes : x.source = source}}
        trips == {t.id : t \in {x \in d.trips : x.route \in routes}}
        d1 == [d EXCEPT !.stoptimes = {x \in @ : x.trip \notin trips}]
        d2 == DeleteTrips(d1, {t \in d1.trips : t.route \in routes})
        d3 == DeleteRoutes(d2, {r \in d2.routes : r.source = source})
        d4 == DeleteServices(d3, ServicesOfSource(d3, source))
        d5 == DeleteStops(d4, {x \in d4.stops : x.source = source})
        d6 == [d5 EXCEPT !.routelinks =
                  {rl \in @ : \A sv \in d5.services :
                                  sv.id = rl.service => sv.source # source}]
    IN  [d6 EXCEPT !.sources = @ \ {source}, !.datetime[source] = NULL]

\* the stores that the command is run on
DeleteStores ==
    {Ingested(EmptyStore, <<<<"A", FeedNamed("F1")>>>>),
     Ingested(EmptyStore, <<<<"A", FeedNamed("F1")>>, <<"B", FeedNamed("F3")>>>>),
     Ingested(EmptyStore, <<<<"B", FeedNamed("F2")>>, <<"A", FeedNamed("F3")>>>>),
     Ingested(EmptyStore, <<<<"A", FeedNamed("F3")>>, <<"B", FeedNamed("F5")>>>>),
     Ingested(EmptyStore, <<<<"A", FeedNamed("F1")>>, <<"B", FeedNamed("F3")>>,
                            <<"A", FeedNamed("F1")>>>>)}

InitDelete ==
    /\ db \in DeleteStores
    /\ NoRun
    /\ live = NoLive
    /\ calc = NoCalc
    /\ walk = NoWalk
    /\ poll = NoPoll
    /\ cmd = [at |-> "ready", deletes |-> 0]

\* handle, lines 14-61
delete_source(source_name, source_id) ==
    /\ cmd.at \in {"ready", "ended"}
    /\ cmd.deletes < MaxDeletes
    /\ LET found == GetSource(db, source_name, source_id)
           source == IF found = {} THEN "" ELSE CHOOSE x \in found : TRUE
       IN  \E out \in {IF found = {} THEN db ELSE DeleteSource(db, source)} :
              /\ db' = out
              /\ cmd' = [at |-> "ended", deletes |-> cmd.deletes + 1,
                         source_name |-> source_name, source_id |-> source_id,
                         source |-> source, before |-> db]
    /\ UNCHANGED <<self, pc, before, prev, runs, live, calc, walk, poll>>

NextDelete ==
    \E source_name \in SourceNames, source_id \in SourceIds :
        delete_source(source_name, source_id)

SpecDelete == InitDelete /\ [][NextDelete]_vars

\* ------------------------------------------------------------- one route row

\* Runs of lines 332-354 on feeds of one agency and one route row, on a store
\* that imports filled.

MaxRows == 2

\* the routes.txt rows of the model
RouteRows ==
    {RouteRow(code, short, long, Raw("ag1")) :
        code \in {R1, R2}, short \in {"10", ""}, long \in {"City Loop", "Airport Link"}}

\* the stores that the rows are handled on
RouteStores ==
    {Ingested(EmptyStore, <<<<"A", FeedNamed("F1")>>>>),
     Ingested(EmptyStore, <<<<"A", FeedNamed("F3")>>>>),
     Ingested(EmptyStore, <<<<"A", FeedNamed("F6")>>>>)}

InitRoute ==
    /\ db \in RouteStores
    /\ NoRun
    /\ live = NoLive
    /\ calc = NoCalc
    /\ walk = NoWalk
    /\ poll = NoPoll
    /\ cmd = [at |-> "ready", rows |-> 0]

\* lines 332-354 of a run for source on the agency Acme and the route row line
route_row(source, line) ==
    /\ cmd.at \in {"ready", "ended"}
    /\ cmd.rows < MaxRows
    /\ \E st1 \in {handle_agencies([db |-> db, self |-> NewSelf(source, NoFeed)],
                                   <<Acme>>)} :
       \E st2 \in {handle_route(st1, line)} :
          /\ db' = st2.db
          /\ cmd' = [at |-> "ended", rows |-> cmd.rows + 1, source |-> source,
                     line |-> line, before |-> st1.db,
                     operator |-> st2.self.route_operators[line.route_id],
                     service |-> st2.self.routes[line.route_id].service_id]
    /\ UNCHANGED <<self, pc, before, prev, runs, live, calc, walk, poll>>

NextRoute == \E source \in Sources, line \in RouteRows : route_row(source, line)

SpecRoute == InitRoute /\ [][NextRoute]_vars

\* ------------------------------------------------------------- the COPY of one run

\* The stop-time loop of a run on feed F5, which has the trip t1 and no trip
\* t4, with the rows of t4 in stop_times.txt drawn from the rows below.

MaxUnknown == 2

\* rows of stop_times.txt for the trip t4; "" is a time left empty
UnknownTripRows ==
    {StopTimeRow(T4, 5, stop, arr, dep) :
        stop \in {Raw("2"), Raw("9")},
        arr \in {"08:00:00", "08:05:00", ""},
        dep \in {"08:00:00", ""}}

\* stop_times.txt: the rows of t4 before or after those of t1
CopyInputs ==
    UNION {{rows \o TimesT1, TimesT1 \o rows} : rows \in
              UNION {[1..n -> UnknownTripRows] : n \in 1..MaxUnknown}}

\* the run when it reaches line 454: lines 327-445 on feed F5 for source A
CopyStart ==
    Then([db |-> EmptyStore,
          self |-> [NewSelf("A", FeedNamed("F5")) EXCEPT
                       !.datetime = FeedNamed("F5").last_modified]], LAMBDA st0 :
    Then(handle_agencies(st0, TheFeed(st0.self).agency), LAMBDA st1 :
    Then(handle_routes(st1, TheFeed(st1.self).routes), LAMBDA st2 :
    Then(do_stops(st2), LAMBDA st3 :
        handle_trips(st3, TheFeed(st3.self).trips, <<>>).st))))

InitCopy ==
    /\ \E st \in {CopyStart} :
          /\ db = st.db
          /\ self = st.self
    /\ pc = "stoptimes"
    /\ before = EmptyStore
    /\ prev = [source |-> "", feed |-> "", outcome |-> "idle",
               routes |-> 0, trips |-> 0, stoptimes |-> 0]
    /\ runs = 1
    /\ live = NoLive
    /\ calc = NoCalc
    /\ walk = NoWalk
    /\ poll = NoPoll
    /\ \E rows \in CopyInputs : cmd = [at |-> "rows", rows |-> rows]

\* lines 454-516 on the rows
copy_stop_times ==
    /\ cmd.at = "rows"
    /\ \E r \in {handle_stop_times(State, cmd.rows, {})} :
          /\ db' = r.st.db
          /\ self' = r.st.self
          /\ pc' = IF r.raised THEN "failed" ELSE "post"
          /\ cmd' = [cmd EXCEPT !.at = "copied"]
    /\ UNCHANGED <<before, prev, runs, live, calc, walk, poll>>

NextCopy == copy_stop_times

SpecCopy == InitCopy /\ [][NextCopy]_vars

\* ------------------------------------------------------------- a run, route row by route row

\* A run of handle_zipfile on a feed of the agency Acme whose routes.txt is
\* drawn row by row and whose other tables are empty, on a store that imports
\* filled: the loop of lines 344-353 one row at a time, the rest of the run
\* by the steps of Spec.

MaxFeedRoutes == 2

InitRetire ==
    /\ db \in RouteStores
    /\ \E source \in Sources : self = NewSelf(source, NoFeed)
    /\ pc = "agencies"
    /\ before = db
    /\ prev = [source |-> "", feed |-> "", outcome |-> "idle",
               routes |-> 0, trips |-> 0, stoptimes |-> 0]
    /\ runs = 1
    /\ live = NoLive
    /\ calc = NoCalc
    /\ walk = NoWalk
    /\ poll = NoPoll
    /\ cmd = [at |-> "rows", rows |-> 0]

\* lines 344-353 for one more row of routes.txt
route_line(line) ==
    /\ pc = "routes"
    /\ cmd.rows < MaxFeedRoutes
    /\ \E st \in {handle_route(State, line)} :
          db' = st.db /\ self' = st.self
    /\ cmd' = [cmd EXCEPT !.rows = @ + 1]
    /\ UNCHANGED <<pc, before, prev, runs, live, calc, walk, poll>>

\* line 354: routes.txt has no more rows
routes_end ==
    /\ pc = "routes"
    /\ cmd.rows > 0
    /\ pc' = "stops"
    /\ UNCHANGED <<db, self, before, prev, runs, live, calc, walk, poll, cmd>>

NextRetire ==
    \/ Agencies
    \/ \E line \in RouteRows : route_line(line)
    \/ routes_end
    \/ Stops
    \/ Trips
    \/ StopTimes
    \/ PostPass
    \/ RouteLinks

SpecRetire == InitRetire /\ [][NextRetire]_vars

\* ------------------------------------------------------------- agencies and their routes

\* The start of a run of handle_zipfile for source A under one configuration
\* of DataSource.settings["gtfs"]: the loop of lines 334-339 over an
\* agency.txt drawn row by row, then handle_route for one row of routes.txt.

MaxAgencies == 2

\* the settings that handle reads at lines 80-88, as the defaults
DefaultConfig ==
    [agency_prefix |-> "", default_operator |-> "", operator_matching |-> "noc",
     operator_noc |-> ""]

\* the defaults with one setting changed
Configs ==
    {DefaultConfig}
        \cup {[DefaultConfig EXCEPT !.agency_prefix = "ie-"]}
        \cup {[DefaultConfig EXCEPT !.default_operator = x] : x \in {"ag1", "ag2"}}
        \cup {[DefaultConfig EXCEPT !.operator_matching = x] : x \in {"name", "url", "id"}}
        \cup {[DefaultConfig EXCEPT !.operator_noc = "NOC"]}

\* the rows of agency.txt; the agency_id Raw("") and the url "" are left out
AgencyRows ==
    {AgencyRow(id, name, url) :
        id \in {Raw("ag1"), Raw("ag2"), Raw("")}, name \in {"Acme", "Bolt"},
        url \in {"u1", ""}}

\* the rows of routes.txt; the agency_id Raw("") is left out
AgencyRouteRows ==
    {RouteRow(R1, "10", "City Loop", agency) :
        agency \in {Raw("ag1"), Raw("ag2"), Raw("")}}

\* the stores of the run: an empty one and one with the Operator ag1
AgencyStores == {EmptyStore, Ingested(EmptyStore, <<<<"A", FeedNamed("F1")>>>>)}

InitAgency ==
    /\ db \in AgencyStores
    /\ \E config \in Configs :
          self = [NewSelf("A", NoFeed) EXCEPT
                     !.agency_prefix = config.agency_prefix,
                     !.default_operator = config.default_operator,
                     !.operator_matching = config.operator_matching,
                     !.operator_noc = config.operator_noc]
    /\ pc = "agencies"
    /\ before = db
    /\ prev = [source |-> "", feed |-> "", outcome |-> "idle",
               routes |-> 0, trips |-> 0, stoptimes |-> 0]
    /\ runs = 1
    /\ live = NoLive
    /\ calc = NoCalc
    /\ walk = NoWalk
    /\ poll = NoPoll
    /\ cmd = [at |-> "agencies", agencies |-> <<>>]

\* lines 335-339 for one more row of agency.txt
agency_line(agency) ==
    /\ pc = "agencies"
    /\ Len(cmd.agencies) < MaxAgencies
    /\ \E st \in {handle_agencies(State, <<agency>>)} :
          db' = st.db /\ self' = st.self
    /\ cmd' = [cmd EXCEPT !.agencies = Append(@, agency)]
    /\ UNCHANGED <<pc, before, prev, runs, live, calc, walk, poll>>

\* line 340: agency.txt has no more rows
agencies_end ==
    /\ pc = "agencies"
    /\ pc' = "routes"
    /\ UNCHANGED <<db, self, before, prev, runs, live, calc, walk, poll, cmd>>

\* lines 344-353 for the row of routes.txt
agency_route(line) ==
    /\ pc = "routes"
    /\ cmd.at = "agencies"
    /\ \E st \in {handle_route(State, line)} :
          db' = st.db /\ self' = st.self
    /\ cmd' = [at |-> "routed", agencies |-> cmd.agencies, line |-> line, was |-> db]
    /\ UNCHANGED <<pc, before, prev, runs, live, calc, walk, poll>>

NextAgency ==
    \/ \E agency \in AgencyRows : agency_line(agency)
    \/ agencies_end
    \/ \E line \in AgencyRouteRows : agency_route(line)

SpecAgency == InitAgency /\ [][NextAgency]_vars

\* ------------------------------------------- trips in batches (lines 387-443)
\* The loop over trips.txt one row at a time, on a feed long enough to fill
\* valid_trips: the rows of one route, numbered in feed order.

MaxTrips == 2001

\* every Gap-th trip of a feed with gaps has no row in stop_times.txt
Gap == 3

\* the numbers of rows that trips.txt may have: none, one, and those around
\* the size of a batch and of two
TripCounts ==
    {0, 1, BatchSize - 1, BatchSize, BatchSize + 1, 2 * BatchSize - 1, 2 * BatchSize,
     MaxTrips}

\* row number i of trips.txt
LongTripRow(i) == TripRow(<<i>>, R1, "wk", 0, "Depot", "sh1")

\* stop_times_by_trip of its trip_id
LongStopTimes(i, gaps) ==
    IF gaps /\ i % Gap = 0 THEN <<>>
    ELSE <<StopTimeRow(<<i>>, 1, Raw("1"), "08:00:00", "08:00:00")>>

\* lines 391-438 for one row of trips.txt whose route and calendar are known:
\* the state and valid_trips after it
handle_trip(st, valid_trips, line, rows) ==
    LET trip == BuildTripFrom(st.self, line, rows)
    IN  IF HasNoStart(trip)
        THEN [st |-> [st EXCEPT !.self.trips_without_start = @ + 1],
              valid_trips |-> valid_trips]
        ELSE LET st1 == [st EXCEPT
                            !.self.created_trip_ids = @ \cup {line.trip_id},
                            !.self.trips_with_start = @ + 1]
                 buffered == Append(valid_trips, trip)
             IN  IF Len(buffered) >= BatchSize
                 THEN [st |-> bulk_create_trips(st1, buffered), valid_trips |-> <<>>]
                 ELSE [st |-> st1, valid_trips |-> buffered]

\* the run of F1 for source A when its loop over trips.txt starts
BatchStart ==
    Then([db |-> EmptyStore,
          self |-> [NewSelf("A", FeedNamed("F1")) EXCEPT
                       !.datetime = FeedNamed("F1").last_modified]], LAMBDA st0 :
    Then(handle_agencies(st0, TheFeed(st0.self).agency), LAMBDA st1 :
    Then(handle_routes(st1, TheFeed(st1.self).routes), LAMBDA st2 :
        do_stops(st2))))

InitBatch ==
    /\ \E st \in {BatchStart} :
          /\ db = st.db
          /\ self = st.self
    /\ pc = "trips"
    /\ before = EmptyStore
    /\ prev = [source |-> "", feed |-> "", outcome |-> "idle",
               routes |-> 0, trips |-> 0, stoptimes |-> 0]
    /\ runs = 1
    /\ live = NoLive
    /\ calc = NoCalc
    /\ walk = NoWalk
    /\ poll = NoPoll
    /\ \E gaps \in BOOLEAN : cmd = [at |-> "trips", i |-> 0, gaps |-> gaps, valid_trips |-> <<>>]

\* lines 387-438: the next row of trips.txt
trip_line ==
    /\ pc = "trips"
    /\ cmd.i < MaxTrips
    /\ \E r \in {handle_trip(State, cmd.valid_trips, LongTripRow(cmd.i + 1),
                             LongStopTimes(cmd.i + 1, cmd.gaps))} :
          /\ db' = r.st.db
          /\ self' = r.st.self
          /\ cmd' = [cmd EXCEPT !.i = @ + 1, !.valid_trips = r.valid_trips]
    /\ UNCHANGED <<pc, before, prev, runs, live, calc, walk, poll>>

\* lines 440-443: trips.txt is at its end, what is left in valid_trips is saved
trips_end ==
    /\ pc = "trips"
    /\ cmd.i \in TripCounts
    /\ \E st \in {bulk_create_trips(State, cmd.valid_trips)} :
          /\ db' = st.db
          /\ self' = st.self
    /\ pc' = "stoptimes"
    /\ cmd' = [cmd EXCEPT !.valid_trips = <<>>]
    /\ UNCHANGED <<before, prev, runs, live, calc, walk, poll>>

NextBatch == trip_line \/ trips_end

SpecBatch == InitBatch /\ [][NextBatch]_vars

\* ============================================================= properties

\* the trip rows of the feed that have a stop time, by route code
TimedTripRows(feed, code) ==
    {i \in DOMAIN feed.trips :
        /\ feed.trips[i].route_id = code
        /\ StopTimesOfTrip(feed, feed.trips[i].trip_id) # <<>>}

TripsOfRoute(d, route_id) == {t \in d.trips : t.route = route_id}

\* C1: if a run fails after its first write, none of its writes remain: the
\* store equals the store before the run.
C1_AllOrNothing == pc = "failed" => db = before

\* the Route codes that the run that just completed imported again
Reimported ==
    {c \in DOMAIN self.routes :
        \E r \in before.routes : r.source = self.source /\ r.code = c}

\* C2: after a completed run that re-imports a Route code already present for
\* the source, the Trips of that Route are exactly the Trips created from the
\* current feed's trip rows, and none of its StopTimes is of an earlier run.
C2_ReimportIsolation ==
    pc = "done" =>
        \A c \in Reimported :
            LET attached == TripsOfRoute(db, self.routes[c].id)
                rows == TimedTripRows(TheFeed(self), c)
            IN  /\ \A t \in attached : t.id > before.seq.trip
                /\ {t.ticket_machine_code : t \in attached}
                       = {TheFeed(self).trips[i].trip_id : i \in rows}
                /\ Cardinality(attached) = Cardinality(rows)
                /\ \A x \in db.stoptimes :
                       x.trip \in {t.id : t \in attached} => x.id > before.seq.stoptime

\* a completed re-import of a Route whose earlier Trips were other trips
C2_Witness ==
    /\ pc = "done"
    /\ \E c \in Reimported :
          \E r \in before.routes :
              /\ r.source = self.source /\ r.code = c
              /\ TripsOfRoute(before, r.id) # {}
              /\ {t.ticket_machine_code : t \in TripsOfRoute(before, r.id)}
                     # {t.ticket_machine_code : t \in TripsOfRoute(db, r.id)}
              /\ TripsOfRoute(db, r.id) # {}

\* the keys of the RouteLinks of the store
LinkKey(rl) == <<rl.service, rl.from_stop, rl.to_stop>>

\* the run that just completed ingested the feed that the run before it
\* completed for the same source
SecondRunOfFeed ==
    /\ pc = "done"
    /\ prev.outcome = "done"
    /\ prev.source = self.source
    /\ prev.feed = self.feed

\* C3: a second run in a row on the same feed leaves the same number of
\* Routes, Trips and StopTimes for the source as the first, and no two
\* RouteLinks with the same (service, from-stop, to-stop).
C3_Idempotence ==
    SecondRunOfFeed =>
        /\ Cardinality(RoutesOf(db, self.source)) = prev.routes
        /\ Cardinality(TripsOf(db, self.source)) = prev.trips
        /\ Cardinality(StopTimesOf(db, self.source)) = prev.stoptimes
        /\ \A a, b \in db.routelinks : LinkKey(a) = LinkKey(b) => a = b

C3_Witness ==
    /\ SecondRunOfFeed
    /\ prev.trips > 0
    /\ prev.stoptimes > 0
    /\ db.routelinks # {}

\* C4: while a run for one source is going on, a StopPoint owned by another
\* source keeps its name, indicator, coordinates and source.
C4_StopOwnership ==
    [][\A x \in db.stops :
          (~Ended /\ x.source \notin {"", self.source}) => x \in db'.stops]_vars

\* do_stops has run for a feed that gives a stop of another source other
\* coordinates or another name
C4_Witness ==
    /\ pc = "trips"
    /\ \E x \in db.stops :
          /\ x.source \notin {"", self.source}
          /\ \E i \in DOMAIN TheFeed(self).stops :
                LET c == StopCandidate(self, TheFeed(self).stops[i])
                IN  c.atco_code = x.atco_code /\ NeedsUpdate(x, c)

\* C5: there is at most one Route for a source and a route code.
C5_OneRoutePerCode ==
    \A a, b \in db.routes : (a.source = b.source /\ a.code = b.code) => a = b

\* a run has handled a route code that has a Route already: one imported by
\* an earlier run and one that is in two rows of the feed
C5_Witness ==
    /\ pc = "done"
    /\ Reimported # {}
    /\ \E i, j \in DOMAIN TheFeed(self).routes :
          i # j /\ TheFeed(self).routes[i].route_id = TheFeed(self).routes[j].route_id

\* get_journey has been called for a report
Called == live.at \in {"returned", "raised"}

\* the vehicle of the last report, as the call left it
VehicleNow == CHOOSE v \in live.vehicles : v.code = live.was.code

\* C6: a report whose trip_id is the code of its vehicle's cached latest
\* journey gets that same journey back: no exception, no new journey, no
\* change to the vehicle (in both matchers).
C6_ShortCircuit ==
    (Called /\ SameJourney(live.was, live.item)) =>
        /\ live.at = "returned"
        /\ live.reused
        /\ live.journey = live.was.latest_journey
        /\ VehicleNow = live.was

\* the Routes of the matcher's source
LiveRoutes == {r \in db.routes : r.source = LiveSource}

\* the Services with a Route of the source whose code ends in _suffix
ServicesEnding(suffix) ==
    {sv \in db.services :
        \E r \in LiveRoutes : r.service = sv.id /\ EndsWithUnderscore(r.code, suffix)}

\* the last report got a journey built for it, not the cached one
Resolved == Called /\ ~SameJourney(live.was, live.item)

\* C7: a report coded 123_456, whose route_id is the code of no Route of the
\* source and whose code is the code of no Trip, when exactly one Service of the
\* source has a Route with a code ending in _456, gets a journey with that
\* Service.
C7_SuffixFallback ==
    ( /\ Resolved
      /\ live.item.trip_id = <<"123", "456">>
      /\ \A r \in LiveRoutes : r.code # live.item.route_id
      /\ \A t \in db.trips : t.ticket_machine_code # live.item.trip_id
      /\ Cardinality(ServicesEnding(<<"456">>)) = 1 )
    => /\ live.at = "returned"
       /\ \E sv \in ServicesEnding(<<"456">>) : live.journey.service = sv.id

\* C8: a report whose trip_id is the code of no Trip, and whose route code
\* is, whole or by its suffix, the code of no Route, gets a journey with neither
\* Service nor Trip, and no exception.
C8_Unmatched ==
    ( /\ Resolved
      /\ \A t \in db.trips : t.ticket_machine_code # live.item.trip_id
      /\ \A r \in LiveRoutes :
            /\ r.code # live.item.route_id
            /\ ~EndsWithUnderscore(r.code, RouteSuffix(live.item)) )
    => /\ live.at = "returned"
       /\ live.journey.service = NULL
       /\ live.journey.trip = NULL

\* the Trip of the journey of the last report
JourneyTrip == CHOOSE t \in db.trips : t.id = live.journey.trip

\* C9: a journey that get_journey built with a Trip has the Service of the
\* Route of that Trip.
C9_TripImpliesService ==
    (live.at = "returned" /\ ~live.reused /\ live.journey.trip # NULL) =>
        live.journey.service = RouteOf(db, JourneyTrip).service

\* a journey got its Trip where another Trip of the same code is on a Route of
\* another Service, and a journey got its Trip by the suffix of its route code
C9_Witness ==
    /\ live.at = "returned" /\ ~live.reused
    /\ live.journey.trip # NULL
    /\ live.journey.service # NULL
    /\ \/ \E t \in db.trips :
             /\ t.ticket_machine_code = live.item.trip_id
             /\ RouteOf(db, t).service # live.journey.service
       \/ /\ \A r \in LiveRoutes : r.code # live.item.route_id
          /\ \A t \in db.trips : t.ticket_machine_code # live.item.trip_id

\* the row of the trip with the lowest and with the highest stop_sequence
LowestRow(rows) ==
    CHOOSE x \in Range(rows) : \A y \in Range(rows) : x.stop_sequence <= y.stop_sequence

HighestRow(rows) ==
    CHOOSE x \in Range(rows) : \A y \in Range(rows) : y.stop_sequence <= x.stop_sequence

\* C10: whatever the order of the stop-time rows of a trip, its start is the
\* departure of the row with the lowest stop_sequence, its end the arrival of
\* the row with the highest, and its destination the stop of that last row
\* with the stop prefix applied.
C10_TripTimes ==
    calc.at = "built" =>
        /\ calc.trip.start = LowestRow(calc.stop_times).departure_time
        /\ calc.trip.end = HighestRow(calc.stop_times).arrival_time
        /\ calc.trip.destination
               = <<CalcSelf.stop_prefix, HighestRow(calc.stop_times).stop_id[2]>>

\* the rows of the example: sequences 1, 2, 3 out of order, departures
\* 08:00:00, 08:05:00, 08:12:00 and arrivals 08:00:00, 08:05:00, 08:10:00
C10_Witness ==
    /\ calc.at = "built"
    /\ Len(calc.stop_times) = 3
    /\ calc.stop_times[1].stop_sequence = 2
    /\ calc.stop_times[2].stop_sequence = 3
    /\ calc.stop_times[3].stop_sequence = 1
    /\ calc.stop_times[3].departure_time = "08:00:00"
    /\ calc.stop_times[2].arrival_time = "08:10:00"
    /\ calc.trip.start = "08:00:00"
    /\ calc.trip.end = "08:10:00"

\* the key of the stop pair (i, i + 1) of the trip that is walked
WalkKey(i) ==
    <<WalkService, Prefixed("s-", walk.rows[i].stop_id),
      Prefixed("s-", walk.rows[i + 1].stop_id)>>

\* where the stop of row i projects on the shape
WalkProjection(i) == walk.positions[Prefixed("s-", walk.rows[i].stop_id)]

\* both stops of the pair (i, i + 1) project to the same distance
Degenerate(i) == WalkProjection(i) = WalkProjection(i + 1)

\* C11: a stop pair whose two stops project to the same distance gives no
\* RouteLink, the cursor moves to the end distance of that pair, the loop goes
\* on to the next pair, and every later pair that is not degenerate has its
\* RouteLink.
C11_Degeneracy ==
    [][(walk.at = "pairs" /\ Degenerate(walk.i)) =>
          /\ walk'.route_links = walk.route_links
          /\ WalkKey(walk.i) \notin DOMAIN walk'.route_links
          /\ walk'.start_dist = WalkProjection(walk.i + 1)
          /\ walk'.i = walk.i + 1
          /\ walk'.at = (IF walk.i + 1 < Len(walk.rows) THEN "pairs" ELSE "save")
          /\ walk'.at = "save" =>
                \A j \in 1..(Len(walk.rows) - 1) :
                    Degenerate(j) \/ WalkKey(j) \in DOMAIN walk'.route_links]_vars

\* the loop is over for a trip with a degenerate pair and, after it, a pair
\* that has its RouteLink, from the end distance of the degenerate pair
C11_Witness ==
    /\ walk.at = "save"
    /\ \E i, j \in 1..(Len(walk.rows) - 1) :
          /\ i + 1 = j
          /\ Degenerate(i)
          /\ WalkProjection(i) # 0
          /\ ~Degenerate(j)
          /\ WalkKey(j) \in DOMAIN walk.route_links
          /\ walk.route_links[WalkKey(j)].geometry
                 = <<WalkProjection(i + 1), WalkProjection(j + 1)>>

\* in continuous mode the last fetch failed, or import_data raised
FetchFailed == poll.continuous /\ poll.last \in {"failed", "raised"}

\* C12: in continuous mode, after a fetch that failed or an import_data that
\* raised, the loop is sleeping or about to fetch, never over, and it comes to
\* fetch again, unless a stop signal arrived.
C12_LoopSurvives ==
    /\ []((FetchFailed /\ ~poll.signal) =>
              poll.at \in {"sleep", "error_sleep", "fetch"})
    /\ ((FetchFailed /\ poll.at \in {"sleep", "error_sleep"})
            ~> (poll.at = "fetch" \/ poll.signal))

\* the loop is about to fetch again after an import_data that raised
C12_Witness ==
    /\ FetchFailed
    /\ poll.last = "raised"
    /\ poll.at = "fetch"
    /\ poll.fetches = 1
    /\ ~poll.signal

\* C13: when a stop signal ended the polling loop, every record of the last
\* fetch had been taken.
C13_StopBetweenIterations ==
    (poll.signal /\ poll.at = "stopped") => poll.i > Len(poll.routes)

\* handle has run as a whole
Handled == cmd.at = "ended"

\* C14 as it is stated: handle_zipfile runs only if the download reports a
\* change, or --force is given, or the source was never ingested (it has no
\* saved datetime); and handle without a run of handle_zipfile writes nothing.
C14_GateAsStated ==
    Handled =>
        /\ cmd.ran => (cmd.modified \/ cmd.force \/ cmd.stored = NULL)
        /\ ~cmd.ran => db = cmd.before

\* C14, amended: handle_zipfile runs only if the download reports a change, or
\* --force is given, or the Last-Modified of the download is not the datetime
\* saved for the source; when the saved datetime is that of the feed, an
\* unchanged feed without --force causes no write.
C14_Gate ==
    Handled =>
        /\ cmd.ran => (cmd.modified \/ cmd.force \/ cmd.last_modified # cmd.stored)
        /\ (~cmd.modified /\ ~cmd.force /\ cmd.last_modified = cmd.stored) =>
               (~cmd.ran /\ db = cmd.before)

\* an unchanged feed without --force, for a source whose last run ingested
\* that feed to the end: nothing runs
C14_Witness ==
    /\ Handled
    /\ ~cmd.modified /\ ~cmd.force
    /\ cmd.stored # NULL
    /\ cmd.last_modified = cmd.stored
    /\ cmd.before.trips # {}
    /\ ~cmd.ran

\* the rows of the store that are attributed to a source: its Routes, their
\* Trips and StopTimes, its Services and their RouteLinks, its StopPoints
AttributedTo(d, source) ==
    [stoptimes |-> StopTimesOf(d, source),
     trips |-> TripsOf(d, source),
     routes |-> RoutesOf(d, source),
     services |-> {sv \in d.services : sv.source = source},
     stops |-> {x \in d.stops : x.source = source},
     routelinks |-> {rl \in d.routelinks :
                        \E sv \in d.services : sv.id = rl.service /\ sv.source = source}]

Deleted == cmd.at = "ended" /\ cmd.source # ""

\* C15: after delete_source has found its source S, the store holds no
\* StopTime, Trip, Route, Service, StopPoint or RouteLink attributed to S and
\* no DataSource S; a call whose source is not found, or that names none,
\* leaves the store as it was.
C15_DeleteSource ==
    /\ Deleted =>
          /\ \A kind \in DOMAIN AttributedTo(db, cmd.source) :
                AttributedTo(db, cmd.source)[kind] = {}
          /\ cmd.source \notin db.sources
    /\ (cmd.at = "ended" /\ cmd.source = "") => db = cmd.before

\* a source that had rows of all six kinds was deleted while the other source
\* keeps a Route
C15_Witness ==
    /\ Deleted
    /\ \A kind \in DOMAIN AttributedTo(cmd.before, cmd.source) :
          AttributedTo(cmd.before, cmd.source)[kind] # {}
    /\ db.routes # {}

\* the StopTimes that the run wrote for one row of stop_times.txt
WrittenFor(line) ==
    {x \in db.stoptimes :
        /\ line.trip_id \in DOMAIN self.trip_id_to_pk
        /\ x.trip = self.trip_id_to_pk[line.trip_id]
        /\ x.sequence = line.stop_sequence}

\* the COPY of the run has been applied
StopTimesWritten == pc \in {"post", "links", "done"}

\* C16: a written StopTime has the departure of its row in seconds, and its
\* arrival is null when the row's arrival_time is its departure_time and the
\* arrival in seconds otherwise.
C16_ArrivalOmission ==
    StopTimesWritten =>
        \A i \in DOMAIN TheFeed(self).stop_times :
            LET line == TheFeed(self).stop_times[i]
            IN  \A x \in WrittenFor(line) :
                    /\ x.departure = parse_duration(line.departure_time)
                    /\ x.arrival = IF line.arrival_time = line.departure_time
                                   THEN NULL
                                   ELSE parse_duration(line.arrival_time)

\* the Services of the row's operator that had a Route of the row's code
\* before the row was handled
MatchedByRoute ==
    {sv \in ServicesOfOperator(cmd.before, cmd.operator) :
        \E r \in cmd.before.routes : r.code = cmd.line.route_id /\ r.service = sv.id}

\* those that matched the row by line name or description and by no code;
\* the long name of every row of the model has a space, so that the line name
\* is the short name and the description is the long name (lines 244-250)
MatchedByNameOnly ==
    {sv \in ServicesOfOperator(cmd.before, cmd.operator) :
        /\ ServiceMatches(cmd.before, sv, cmd.line.route_id, cmd.line.route_short_name,
                          cmd.line.route_long_name)
        /\ sv \notin MatchedByRoute
        /\ sv.service_code # cmd.line.route_id}

\* C17: when a Service matches the row by a Route of its code and another
\* Service with a lower id matches it by line name or description only,
\* handle_route takes a Service that matches by the Route code.
C17_MatchPriority ==
    (/\ cmd.at = "ended"
     /\ MatchedByRoute # {}
     /\ \E x \in MatchedByNameOnly : \A y \in MatchedByRoute : x.id < y.id)
        => cmd.service \in {sv.id : sv \in MatchedByRoute}

\* the trip loop of the run has ended without an exception
TripsHandled == pc \in {"stoptimes", "post", "links", "done"}

\* the Trips that the run inserted
InsertedTrips == {t \in db.trips : t.id > before.seq.trip}

\* the rows of trips.txt that have no row in stop_times.txt
UntimedTripRows ==
    {i \in DOMAIN TheFeed(self).trips :
        StopTimesOfTrip(TheFeed(self), TheFeed(self).trips[i].trip_id) = <<>>}

\* C18: once the trip loop has ended, no Trip was inserted for a trip row
\* without stop-time rows, each such row is counted in trips_without_start,
\* every inserted Trip has a start, one Trip was inserted for each row counted
\* in trips_with_start, and the two counters add up to the number of trip rows.
C18_TripsWithoutStart ==
    TripsHandled =>
        /\ \A i \in UntimedTripRows : \A t \in InsertedTrips :
              t.ticket_machine_code # TheFeed(self).trips[i].trip_id
        /\ self.trips_without_start = Cardinality(UntimedTripRows)
        /\ \A t \in InsertedTrips : t.start # NoTime
        /\ Cardinality(InsertedTrips) = self.trips_with_start
        /\ self.trips_with_start + self.trips_without_start = Len(TheFeed(self).trips)

\* a run on a feed that has a trip row with stop times and one without is done
C18_Witness ==
    /\ pc = "done"
    /\ UntimedTripRows # {}
    /\ InsertedTrips # {}

\* the rows of stop_times.txt whose trip the run inserted
RowsOfInsertedTrips ==
    {i \in DOMAIN cmd.rows : cmd.rows[i].trip_id \in DOMAIN self.trip_id_to_pk}

\* C19: when every row whose times cannot be read belongs to a trip that the
\* run did not insert, the stop-time loop does not raise, it writes one
\* StopTime with the Trip's primary key for each row of an inserted trip,
\* skips the others, and processed + skipped is the number of rows.
C19_StopTimeRows ==
    (/\ cmd.at = "copied"
     /\ \A i \in RowsOfInsertedTrips : ~StopTimeRaises(cmd.rows[i]))
        => /\ pc # "failed"
           /\ self.stop_times_processed = Cardinality(RowsOfInsertedTrips)
           /\ Cardinality(db.stoptimes) = Cardinality(RowsOfInsertedTrips)
           /\ \A x \in db.stoptimes :
                 \E i \in RowsOfInsertedTrips :
                     /\ x.trip = self.trip_id_to_pk[cmd.rows[i].trip_id]
                     /\ x.sequence = cmd.rows[i].stop_sequence
           /\ self.stop_times_processed + self.stop_times_skipped = Len(cmd.rows)

\* the pair (i, i + 1) is handled: an entry of route_links stays as it is; a
\* pair whose key is in route_links adds nothing and resets the cursor; a key
\* that comes in has the id of its RouteLink row, if there is one
PairKeepsFirst ==
    walk.at = "pairs" =>
        /\ \A k \in DOMAIN walk.route_links :
              k \in DOMAIN walk'.route_links /\ walk'.route_links[k] = walk.route_links[k]
        /\ WalkKey(walk.i) \in DOMAIN walk.route_links =>
              walk'.route_links = walk.route_links /\ walk'.start_dist = NULL
        /\ \A k \in DOMAIN walk'.route_links \ DOMAIN walk.route_links :
              /\ k = WalkKey(walk.i)
              /\ walk'.route_links[k].geometry[2] = WalkProjection(walk.i + 1)
              /\ \A x \in db.routelinks :
                    LinkKey(x) = k => walk'.route_links[k].id = x.id

\* route_links is saved: every key has one RouteLink with its geometry, a
\* RouteLink that was there keeps its id and key, a new id comes with a new
\* key, and no two RouteLinks have one key
SaveUpserts ==
    walk.at = "save" =>
        /\ \A k \in DOMAIN walk.route_links :
              \E x \in db'.routelinks :
                  LinkKey(x) = k /\ x.geometry = walk.route_links[k].geometry
        /\ \A old \in db.routelinks :
              \E x \in db'.routelinks :
                  /\ x.id = old.id
                  /\ LinkKey(x) = LinkKey(old)
                  /\ LinkKey(old) \notin DOMAIN walk.route_links => x = old
        /\ \A x \in db'.routelinks :
              x.id \notin {old.id : old \in db.routelinks} =>
                  LinkKey(x) \notin {LinkKey(old) : old \in db.routelinks}
        /\ \A a, b \in db'.routelinks : LinkKey(a) = LinkKey(b) => a = b

\* C20: within a run the first pair that gives a segment for a key fixes the
\* key's geometry and a later pair of that key is skipped with the cursor
\* reset; the save updates the RouteLink of a key that has one, inserts one
\* for a key that has none, and leaves at most one RouteLink per key.
C20_LinkUpsert == [][PairKeepsFirst /\ SaveUpserts]_vars

\* a walk was saved in which a key came twice with different segments, one
\* key had its RouteLink and one had none
C20_Witness ==
    /\ walk.at = "saved"
    /\ \E i, j \in 1..(Len(walk.rows) - 1) :
          /\ i < j
          /\ WalkKey(i) = WalkKey(j)
          /\ WalkKey(i) \in DOMAIN walk.route_links
    /\ \E k1, k2 \in DOMAIN walk.route_links :
          /\ walk.route_links[k1].id # NULL
          /\ walk.route_links[k2].id = NULL
          /\ \E x \in db.routelinks :
                LinkKey(x) = k1 /\ x.id = walk.route_links[k1].id
                    /\ x.geometry = walk.route_links[k1].geometry

\* the post-pass of the run has been done
PostPassDone == pc \in {"links", "done"}

\* the ids of the Routes that the run handled
HandledRoutes == {self.routes[c].id : c \in DOMAIN self.routes}

\* C21: after the post-pass every Route that the source had and that the run
\* did not handle is still there with no Service, every Service of the source
\* that the run did not handle and that has no handled Route is not current,
\* and every Service that the run handled is current.
C21_Retirement ==
    PostPassDone =>
        /\ \A r \in before.routes :
              (r.source = self.source /\ r.id \notin HandledRoutes) =>
                  \E x \in db.routes : x.id = r.id /\ x.service = NULL
        /\ \A r \in db.routes :
              (r.source = self.source /\ r.id \notin HandledRoutes) => r.service = NULL
        /\ \A sv \in db.services :
              (/\ sv.source = self.source
               /\ sv.id \notin self.services
               /\ ~\E r \in db.routes : r.id \in HandledRoutes /\ r.service = sv.id)
                  => ~sv.current
        /\ \A sv \in db.services : sv.id \in self.services => sv.current

\* handle_route has handled a row of routes.txt that names no agency
RoutedWithoutAgency == cmd.at = "routed" /\ cmd.line.agency_id = Raw("")

\* the operator that handle_route took for the row
RouteOperator == self.route_operators[cmd.line.route_id]

\* C22: for a route row without agency reference, the one Operator of the
\* run's lookup is taken when the lookup holds exactly one; otherwise, when a
\* default operator is configured and an Operator of that identity exists, that
\* Operator is taken; otherwise the route has no operator.
C22_OperatorFallback ==
    RoutedWithoutAgency =>
        IF Cardinality(DOMAIN self.operators) = 1
        THEN \A k \in DOMAIN self.operators : RouteOperator = self.operators[k]
        ELSE IF self.default_operator # ""
        THEN (\E o \in cmd.was.operators : o.noc[2] = self.default_operator) =>
                 (RouteOperator # NoneId /\ RouteOperator[2] = self.default_operator)
        ELSE RouteOperator = NoneId

\* the service date of the journey of the last report: the start_date of the
\* report, or the date of the current time that stands in for it
ServiceDate == IF HasScheduleData(live.item) THEN live.item.start_date ELSE Today

\* the candidate Trips of the last report whose Calendar runs on the service date
ActiveCandidates ==
    {t \in db.trips :
        /\ t.id \in live.candidates
        /\ t.calendar \in get_calendars(ServiceDate, {t.calendar})}

\* C23: a journey built from more than one candidate Trip has the first
\* candidate whose Calendar runs on the journey's service date, and no Trip
\* when none does.
C23_TripDisambiguation ==
    (live.at = "returned" /\ ~live.reused /\ Cardinality(live.candidates) > 1) =>
        IF ActiveCandidates = {} THEN live.journey.trip = NULL
        ELSE live.journey.trip = MinOf({t.id : t \in ActiveCandidates})

\* C24: a report without start_date or start_time that is not answered from
\* the cache gets a journey dated with the current time, with no exception, in
\* both matchers; a report that has both gets a journey dated with them.
C24_StartDatetime ==
    Resolved =>
        IF HasScheduleData(live.item)
        THEN live.at = "returned" =>
                 live.journey.datetime = <<live.item.start_date, live.item.start_time>>
        ELSE /\ live.at = "returned"
             /\ live.journey.datetime = <<"now", "now">>

\* the vehicle of the report that the step handles, before and after it
VehicleBefore == live'.was

VehicleAfter == CHOOSE v \in live'.vehicles : v.code = live'.was.code

\* the operator of the Trip of the journey that the step built, NoneId when
\* the journey has no Trip
AdoptedFrom ==
    IF live'.at = "returned" /\ ~live'.reused /\ live'.journey.trip # NULL
    THEN (CHOOSE t \in db.trips : t.id = live'.journey.trip).operator
    ELSE NoneId

\* C25: a report changes the operator of its Vehicle only from none to the
\* operator of the matched Trip, and does so whenever the Vehicle has none and
\* the Trip has one; no other Vehicle is changed.
C25_OperatorAdoption ==
    [][/\ VehicleBefore.operator # NoneId =>
              VehicleAfter.operator = VehicleBefore.operator
       /\ VehicleBefore.operator = NoneId => VehicleAfter.operator = AdoptedFrom
       /\ \A v \in live.vehicles :
              v.code # VehicleBefore.code => v \in live'.vehicles]_vars

\* a Vehicle that had adopted an operator was matched to a Trip of another
\* operator and kept its own
C25_Witness ==
    /\ live.at = "returned"
    /\ ~live.reused
    /\ live.journey.trip # NULL
    /\ live.was.operator # NoneId
    /\ JourneyTrip.operator # NoneId
    /\ JourneyTrip.operator # live.was.operator
    /\ VehicleNow.operator = live.was.operator

\* the agency row that the step handles
AgencyHandled == cmd'.agencies[Len(cmd'.agencies)]

\* whether an Operator is the one that the strategy of the run relates to the
\* agency row: by the identity code that the row gets, by name, or by URL
MatchesAgency(o) ==
    LET line == AgencyHandled
        id0 == IF line.agency_id # Raw("") THEN line.agency_id
               ELSE IF self.operator_noc # "" THEN Raw(self.operator_noc)
               ELSE Raw(line.agency_name)
    IN  CASE self.operator_matching = "noc" -> o.noc = Prefixed(self.agency_prefix, id0)
          [] self.operator_matching = "name" -> Lower(o.name) = Lower(line.agency_name)
          [] self.operator_matching = "url" -> line.agency_url # "" /\ o.url = line.agency_url
          [] OTHER -> FALSE

\* the Operator that handle_operator returned for the row
ReturnedOperator ==
    self'.operators[IF AgencyHandled.agency_id # Raw("") THEN AgencyHandled.agency_id
                    ELSE Raw(AgencyHandled.agency_name)]

\* C26: handling an agency row changes no Operator of the store but one that
\* matches the row under the strategy, returns an Operator of the store only if
\* it matches, and handling the row that was handled just before adds none.
C26_OperatorMatching ==
    [][(pc = "agencies" /\ Len(cmd'.agencies) > Len(cmd.agencies)) =>
          /\ \A o \in db.operators : o \notin db'.operators => MatchesAgency(o)
          /\ \A o \in db.operators : o.noc = ReturnedOperator => MatchesAgency(o)
          /\ (cmd.agencies # <<>> /\ cmd.agencies[Len(cmd.agencies)] = AgencyHandled) =>
                Cardinality(db'.operators) = Cardinality(db.operators)]_vars

\* handle_route has handled a row of routes.txt that names an agency of the
\* agency.txt of the run
RoutedWithAgency ==
    /\ cmd.at = "routed"
    /\ cmd.line.agency_id # Raw("")
    /\ cmd.line.agency_id \in DOMAIN self.operators

\* C27: a route row that names an agency of the run's agency.txt gets the
\* Operator that the run stored for that agency, with and without
\* agency_prefix.
C27_AgencyKey ==
    RoutedWithAgency => RouteOperator = self.operators[cmd.line.agency_id]

\* the Service of db' with the id of sv keeps the source, the line name, the
\* description and the code of sv
KeptByOwner(sv) ==
    \E kept \in db'.services :
        /\ kept.id = sv.id
        /\ kept.source = sv.source
        /\ kept.line_name = sv.line_name
        /\ kept.description = sv.description
        /\ kept.service_code = sv.service_code

\* C28: the routes of a run for one source leave every Service of another
\* source with its source, line name, description and code.
C28_NoTakeover ==
    [][pc = "routes" =>
          \A sv \in db.services : sv.source # self.source => KeptByOwner(sv)]_vars

\* the report that the coming step of import_data takes
Report == poll.routes[poll.i]

\* the vehicles of the report, before the step and after it
ReportVehicles(vehicles) == {v \in vehicles : v.thirdrails_id = Report.UniqueName}

\* the Points of the report are the ones cached for its vehicle
SamePoints ==
    \E v \in ReportVehicles(poll.vehicles) :
        v.latest_journey_data # NoData /\ v.latest_journey_data.Points = Report.Points

\* line 262 is reached: the report has a name and nothing was raised for it
Processed == poll'.processed = poll.processed + 1

\* C29: a report with the cached Points creates no journey and leaves the
\* vehicle as it is; a report with other Points and valid coordinates
\* creates one journey, which becomes the latest journey of the vehicle,
\* with the report cached; a report with invalid coordinates creates no
\* journey and leaves the cache as it is; and whatever happens to a report,
\* the next report of the fetch is taken.
C29_Deduplication ==
    [][(poll.at = "items" /\ poll'.i = poll.i + 1) =>
          /\ SamePoints =>
                poll'.journeys = poll.journeys /\ poll'.vehicles = poll.vehicles
          /\ (Processed /\ ~SamePoints /\ parse_coordinates(Report.Points) # "None") =>
                /\ poll'.journeys = poll.journeys + 1
                /\ \A v \in ReportVehicles(poll'.vehicles) :
                      v.latest_journey = poll'.journeys /\ v.latest_journey_data = Report
                /\ ReportVehicles(poll'.vehicles) # {}
          /\ (Processed /\ parse_coordinates(Report.Points) = "None") =>
                /\ poll'.journeys = poll.journeys
                /\ \A v \in ReportVehicles(poll'.vehicles) :
                      IF v \in poll.vehicles THEN TRUE
                      ELSE ReportVehicles(poll.vehicles) = {}
                              /\ v.latest_journey_data = NoData
          /\ poll.i < Len(poll.routes) => poll'.at = "items"]_vars

\* a fetch gave the same report twice: the first made a journey, the second
\* was skipped
C29_Witness ==
    /\ poll.fetches = 1
    /\ poll.i = 3
    /\ poll.processed = 2
    /\ poll.routes[1] = poll.routes[2]
    /\ parse_coordinates(poll.routes[1].Points) # "None"
    /\ poll.journeys = 1
    /\ \E v \in poll.vehicles : v.latest_journey = 1 /\ v.latest_journey_data = poll.routes[2]

\* the Trip that the loop builds from row number i of trips.txt, saved as pk
SavedTrip(i, pk) ==
    [BuildTripFrom(self, LongTripRow(i), LongStopTimes(i, cmd.gaps)) EXCEPT !.id = pk]

\* the trips of two rows that follow each other among the rows with stop
\* times (at most Gap rows apart) have primary keys in the order of the rows
InFeedOrder(id) ==
    \A k \in 1..Gap :
        <<id[1] + k>> \in self.created_trip_ids =>
            self.trip_id_to_pk[id] < self.trip_id_to_pk[<<id[1] + k>>]

\* C30: when the stop times are about to be copied, every trip id of
\* created_trip_ids is a key of trip_id_to_pk, its value is the primary key
\* of the Trip built from the row of that id, and the primary keys follow
\* the feed order, whatever the number of trips.
C30_TripKeys ==
    pc = "stoptimes" =>
        \A id \in self.created_trip_ids :
            /\ id \in DOMAIN self.trip_id_to_pk
            /\ SavedTrip(id[1], self.trip_id_to_pk[id]) \in db.trips
            /\ InFeedOrder(id)

\* trips.txt ended on a full batch, and on a batch that was not full
C30_Witness ==
    /\ pc = "stoptimes"
    /\ self.trips_with_start = 2 * BatchSize
    /\ self.trips_without_start = 0
    /\ Cardinality(db.trips) = 2 * BatchSize

====
